---------------------------- MODULE Spec2Model ----------------------------
(***************************************************************************)
(* Model of the WhatsApp gateway controller (controllers/waController.js,  *)
(* kept in src/unnamed/part_001 in two copies, lines 1-766 and 768-1477).  *)
(*                                                                         *)
(* The controller is asynchronous JavaScript: a handler runs without       *)
(* interruption up to its next `await` and other handlers may run while it *)
(* is suspended.  Every action below is one such uninterrupted run: it     *)
(* starts where a promise settles (or a request, event or timer arrives)   *)
(* and ends at the next `await` or at the handler's return.                *)
(***************************************************************************)
EXTENDS Integers, Sequences, FiniteSets

\* ------------------------------------------------------------------ bounds
\* sockets ever created by makeWASocket
MaxSocks == 2
\* createSocketForUser calls of the connect endpoint suspended at once
MaxCalls == 2
\* the same two bounds where one socket is followed (SpecDispatch, SpecClose)
SmallSocks == 1
SmallCalls == 1
\* recipients of a broadcast
MaxRecipients == 2
\* the SSE responses that ever subscribe
MaxSinks == 2
\* the qr updates a socket emits
MaxQr == 2
\* the sendSSE calls that reach a subscriber (SpecStream)
MaxPubs == 3
\* the longest file name, in pieces (a dot, a slash or a run of letters)
MaxName == 3

\* messages in one messages.upsert batch
MaxBatch == 3

\* heartbeats written to one sink
MaxBeats == 1

\* months of premium a user may reach
MaxUntil == 3

\* the clock, in months
MaxNow == 1

\* reset tokens ever issued by forgotPassword
MaxTokens == 2

\* resetPassword requests handled at once
MaxResets == 2

\* the clock of the reset tokens, in hours
MaxClock == 2

\* ---------------------------------------------------------------- constants
\* DisconnectReason.loggedOut, the one terminal reason code
LoggedOut == 401

\* the price of a premium month, in rupiah
Price == 35000

\* parseInt of a string that does not start with a digit
NaN == 0 - 1

\* the life of a reset token, in hours (3600 * 1000 ms)
TokenLife == 1
\* tenants, identified by their API key
Tenants == {"k1", "k2"}
\* the tenant that is followed
OneTenant == {"k1"}

VARIABLES
  sessions,      \* apiKey -> socket id, 0 when the registry has no entry
  reconnecting,  \* apiKey -> BOOLEAN, the reconnect guard
  sessDir,       \* apiKey -> state of baileys/sessions/{apiKey}
  socks,         \* the sockets made so far, socket id = index
  creating,      \* suspended createSocketForUser calls (with their callers)
  timers,        \* apiKey -> number of pending setTimeout callbacks
  handlers,      \* suspended connection.update handlers
  logoutReq,     \* apiKey -> the logout request in progress
  loggedOut,     \* apiKey -> a logout completed and no connect was requested since
  req,           \* the dispatcher request in progress, or the last one answered
  sseClients,    \* the Map apiKey -> set of subscribed sinks (SSE responses)
  sinks,         \* sink -> its connection and what was written to it
  events,        \* the qr and open updates the channel emitted so far
  evHandlers,    \* suspended connection.update handlers of qr and open updates
  pubs,          \* the sendSSE calls made so far
  media,         \* the file name send-media is classifying, and the kind chosen
  inbox,         \* the messages.upsert batch being handled, and what was done for it
  http,          \* the request the mounted router is routing, and where it ended
  probe,         \* the status query in progress, and its answer
  pay,           \* the payment records, the users' premium and the webhook call
  auth           \* the accounts' passwords and reset tokens, and the requests for them

lifecycle == <<sessions, reconnecting, sessDir, socks, creating, timers, handlers,
               logoutReq, loggedOut>>

\* the requests and events handled apart from the session lifecycle
extra == <<inbox, http, probe, pay, auth>>

\* what each of them leaves alone
notInbox == <<http, probe, pay, auth>>

notHttp == <<inbox, probe, pay, auth>>

notProbe == <<inbox, http, pay, auth>>

notPay == <<inbox, http, probe, auth>>

notAuth == <<inbox, http, probe, pay>>

\* the broadcaster, the handlers that publish to it, and send-media's message
side == <<sseClients, sinks, events, evHandlers, pubs, media, extra>>

\* what the session lifecycle leaves alone
others == <<req, side>>

vars == <<lifecycle, others>>

\* ------------------------------------------------------------ value domains
\* optional values: <<>> is JavaScript's undefined, <<x>> a present value x
Undefined == <<>>

Some(x) == <<x>>

\* the update's lastDisconnect, as far as the handler reads it:
\* lastDisconnect?.error?.output?.statusCode
StatusCodes == {LoggedOut, 428, 515}

LastDisconnects ==
  {Undefined}
  \cup {Some([error |-> Undefined])}
  \cup {Some([error |-> Some([output |-> Undefined])])}
  \cup {Some([error |-> Some([output |-> Some([statusCode |-> c])])]) :
          c \in {Undefined} \cup {Some(k) : k \in StatusCodes}}

\* what the channel reports when it was logged out
LoggedOutDisconnect ==
  Some([error |-> Some([output |-> Some([statusCode |-> Some(LoggedOut)])])])

\* one close that is not a logout (no lastDisconnect) and the logged-out one
SomeDisconnects == {Undefined, LoggedOutDisconnect}

CallKinds == [apiKey : Tenants, from : {"connect", "timer"},
              pc : {"findUser", "version", "auth"}]

Call(t, from, pc) == [apiKey |-> t, from |-> from, pc |-> pc]

SockIds == 1..Len(socks)

\* the sockets of a tenant whose connection is not closed
LiveSocks(t) == {s \in SockIds : socks[s].apiKey = t /\ socks[s].ws # "closed"}

ConnectCalls == {c \in CallKinds : c.from = "connect"}

RECURSIVE SumOver(_, _)
SumOver(f, S) ==
  IF S = {} THEN 0
  ELSE LET x == CHOOSE y \in S : TRUE IN f[x] + SumOver(f, S \ {x})

\* no logout request in progress.  (overlap records, for the properties, that
\* a connect was requested while the logout request was in progress.)
IdleLogout == [pc |-> "idle", target |-> 0, overlap |-> FALSE]

\* no dispatcher request yet.  (found, ws, invoked, failed and logged record,
\* for the properties, what the handler saw in the registry, how often it
\* invoked the socket, whether an invocation failed and how many audit
\* entries it wrote; results is broadcast's local array and out the results
\* the response carries.)
IdleReq ==
  [pc |-> "idle", apiKey |-> "", cmd |-> "", copy |-> 0, body |-> "", n |-> 0,
   found |-> 0, ws |-> "none", invoked |-> 0, failed |-> FALSE, logged |-> 0,
   results |-> <<>>, out |-> <<>>, status |-> 0, error |-> ""]

\* the SSE responses that may subscribe
Sinks == 1..MaxSinks

\* A response that has not asked for the stream yet.  (since, sinceEv, until
\* and log record, for the properties, how many sendSSE calls had been made
\* and how many updates emitted when the sink subscribed, how many calls
\* when it closed, and every write to the sink: the number of the sendSSE
\* call, 0 for the initial ack of the stream, and whether the write
\* succeeded.)
NewSink ==
  [state |-> "new", apiKey |-> "", since |-> 0, sinceEv |-> 0, until |-> 0,
   ping |-> FALSE, log |-> <<>>]

\* send-media is building no message
IdleMedia == [pc |-> "idle", filename |-> <<>>, kind |-> ""]

\* no request is being routed.  (header and query are the x-api-key header
\* and the apiKey query parameter: "none", a key no user has ("unknown") or
\* a tenant's key; user is req.user; handler is the route whose handler ran,
\* layer the mount it was reached through, key the key the stream was
\* subscribed under.)
IdleHttp ==
  [pc |-> "idle", method |-> "", path |-> <<>>, header |-> "none",
   query |-> "none", copy |-> 0, body |-> "", user |-> "none",
   handler |-> "none", layer |-> "none", status |-> 0, key |-> "none",
   sink |-> 0]

\* Users and orders of the payment controller: user 1 has the pending
\* payment o1 of createPremiumPaymentQRIS, o2 is an order id without record.
Users == {1}

Orders == {"o1", "o2"}

\* (credits records, for the properties, how often the user's premium was
\* extended for the order; the program keeps no such field.)
NoPayment ==
  [exists |-> FALSE, userId |-> 0, amount |-> 0, status |-> "",
   notification |-> <<>>, credits |-> 0]

PendingPayment(u) ==
  [exists |-> TRUE, userId |-> u, amount |-> Price, status |-> "pending",
   notification |-> <<>>, credits |-> 0]

\* no webhook call is in progress
IdleHook == [pc |-> "idle", n |-> <<>>, status |-> 0]

InitPay ==
  [users |-> [u \in Users |-> [premium |-> FALSE, premiumUntil |-> 0]],
   payments |-> [o \in Orders |->
                   IF o = "o1" THEN PendingPayment(1) ELSE NoPayment],
   hook |-> IdleHook]

\* The accounts of the auth controller, by email.  null is 0 for the token
\* and -1 for its expiry.
Emails == {"a@x"}

Passwords == {"p1", "p2"}

\* bcrypt.hash(password, 10)
Hash(p) == <<"bcrypt", p>>

NewAccount == [password |-> Hash("p0"), resetToken |-> 0, resetTokenExp |-> 0 - 1]

\* no forgotPassword or resetPassword request is handled
IdleAuthReq ==
  [pc |-> "idle", email |-> "", token |-> 0, exp |-> 0, password |-> "",
   user |-> "", status |-> 0, error |-> ""]

\* (now is the clock; issued counts the tokens generated; uses records, for
\* the properties, how many resetPassword requests each token let succeed.)
InitAuth ==
  [users |-> [e \in Emails |-> NewAccount], now |-> 0, issued |-> 0,
   uses |-> [k \in 1..MaxTokens |-> 0],
   forgot |-> IdleAuthReq,
   resets |-> [r \in 1..MaxResets |-> IdleAuthReq]]

\* no status query is in progress
IdleProbe == [pc |-> "idle", apiKey |-> "", connected |-> FALSE]

\* no messages.upsert batch is being handled
IdleInbox ==
  [pc |-> "idle", sock |-> 0, copy |-> 0, type |-> "", msgs |-> <<>>, i |-> 0,
   attempted |-> <<>>, failed |-> {}, order |-> <<>>]

\* -------------------------------------------------------------------- Init
Init ==
  /\ sessions = [t \in Tenants |-> 0]
  /\ reconnecting = [t \in Tenants |-> FALSE]
  /\ sessDir = [t \in Tenants |-> "absent"]
  /\ socks = <<>>
  /\ creating = [c \in CallKinds |-> 0]
  /\ timers = [t \in Tenants |-> 0]
  /\ handlers = {}
  /\ logoutReq = [t \in Tenants |-> IdleLogout]
  /\ loggedOut = [t \in Tenants |-> FALSE]
  /\ req = IdleReq
  /\ sseClients = [t \in {} |-> {}]
  /\ sinks = [k \in Sinks |-> NewSink]
  /\ events = <<>>
  /\ evHandlers = {}
  /\ pubs = <<>>
  /\ media = IdleMedia
  /\ inbox = IdleInbox
  /\ http = IdleHttp
  /\ probe = IdleProbe
  /\ pay = InitPay
  /\ auth = InitAuth

\* --------------------------------------------------------------- audit log
\* Variant saveLog that lets a failed write escape to its caller
\* (used to show that C20 depends on the try/catch in saveLog).
saveLogRethrows(ok) == IF ok THEN "returned" ELSE "thrown"

\* saveLog: Log.create is awaited inside try/catch, so the call returns
\* normally whether the write succeeded (ok) or not
saveLog(ok) == "returned"

\* the attributes of the record saveLog hands to Log.create
SaveLogRecord == {"userId", "event", "meta"}

\* the attributes the Log model declares with allowNull: false
NotNullFields == {"userId", "type", "message"}

\* Log.create validates the record before it inserts: an attribute declared
\* not-null and absent from the record is a validation error
LogAccepts(record) == NotNullFields \subseteq record

\* an entry is stored when the store is reachable (ok) and takes the record
EntryStored(ok) == ok /\ LogAccepts(SaveLogRecord)

\* ------------------------------------------------------------- broadcaster
\* m.get(apiKey), with the empty set for undefined
ClientsIn(m, t) == IF t \in DOMAIN m THEN m[t] ELSE {}

\* sseClients.get(apiKey)
Clients(t) == ClientsIn(sseClients, t)

\* if (!m.has(apiKey)) m.set(apiKey, new Set()); m.get(apiKey).add(res)
AddClient(m, t, k) ==
  [u \in DOMAIN m \cup {t} |-> IF u = t THEN ClientsIn(m, t) \cup {k} ELSE m[u]]

\* Variant close listener that leaves the key of an emptied set in the Map
\* (used to show that C38 depends on the deletion of the key).
RemoveClientKeepsKey(m, t, k) ==
  IF t \notin DOMAIN m THEN m ELSE [m EXCEPT ![t] = @ \ {k}]

\* the close listener: setClients.delete(res), and the key is deleted with
\* the last response of its set
RemoveClient(m, t, k) ==
  IF t \notin DOMAIN m THEN m
  ELSE IF m[t] \ {k} = {} THEN [u \in DOMAIN m \ {t} |-> m[u]]
  ELSE [m EXCEPT ![t] = @ \ {k}]

\* Variant sendSSE that writes to the sinks of every tenant
\* (used to show that C13 depends on the lookup by apiKey).
sendSSEToAll(t, eventName, data, cause) ==
  LET clients == UNION {Clients(u) : u \in Tenants}
      p == Len(pubs) + 1
  IN IF clients = {}
     THEN UNCHANGED <<pubs, sinks>>
     ELSE /\ pubs' = Append(pubs, [apiKey |-> t, ev |-> eventName,
                                     data |-> data, cause |-> cause])
          /\ sinks' = [k \in Sinks |->
                         IF k \in clients
                         THEN [sinks[k] EXCEPT !.log =
                                 Append(@, [pub |-> p,
                                            ok |-> sinks[k].state = "live"])]
                         ELSE sinks[k]]

\* sendSSE(apiKey, eventName, data), called while the update `cause` (0: a
\* close update or a request) is handled.  Without subscribers it returns at
\* once; else it writes to every sink of the tenant's set, in one
\* uninterrupted loop, and ignores a write that throws.
sendSSE(t, eventName, data, cause) ==
  LET clients == Clients(t)
      p == Len(pubs) + 1
  IN IF t \notin DOMAIN sseClients
     THEN UNCHANGED <<pubs, sinks>>
     ELSE /\ pubs' = Append(pubs, [apiKey |-> t, ev |-> eventName,
                                     data |-> data, cause |-> cause])
          /\ sinks' = [k \in Sinks |->
                         IF k \in clients
                         THEN [sinks[k] EXCEPT !.log =
                                 Append(@, [pub |-> p,
                                            ok |-> sinks[k].state = "live"])]
                         ELSE sinks[k]]

\* GET /qr-stream: the response joins the tenant's set and gets the initial
\* ack
Join(k, t) ==
  /\ sinks[k].state = "new"
  /\ sseClients' = AddClient(sseClients, t, k)
  /\ sinks' = [sinks EXCEPT ![k] = [state |-> "live", apiKey |-> t,
                                     since |-> Len(pubs),
                                     sinceEv |-> Len(events), until |-> 0,
                                     ping |-> TRUE,
                                     log |-> <<[pub |-> 0, ok |-> TRUE]>>]]

\* the handler of GET /qr-stream run for the tenant t, however it was routed
Subscribe(k, t) ==
  /\ Join(k, t)
  /\ UNCHANGED <<events, evHandlers, pubs, media, extra>>
  /\ UNCHANGED <<lifecycle, req>>

\* the connection under a subscribed response breaks: writes to it throw
\* from now on, its `close` has not been delivered yet
SinkBreak(k) ==
  /\ sinks[k].state = "live"
  /\ sinks' = [sinks EXCEPT ![k].state = "broken"]
  /\ UNCHANGED <<sseClients, events, evHandlers, pubs, media, extra>>
  /\ UNCHANGED <<lifecycle, req>>

\* the heartbeat writes made to the sink so far (written as pub -1)
Beats(k) ==
  Cardinality({i \in 1..Len(sinks[k].log) : sinks[k].log[i].pub = -1})

\* the interval set by qrSSE fires: a comment line is written to the
\* response, and a write that throws is ignored
Heartbeat(k) ==
  /\ sinks[k].ping
  /\ sinks' = [sinks EXCEPT ![k].log =
                  Append(@, [pub |-> -1, ok |-> sinks[k].state = "live"])]
  /\ UNCHANGED <<sseClients, events, evHandlers, pubs, media, extra>>
  /\ UNCHANGED <<lifecycle, req>>

\* Variant close listener that leaves the interval running
\* (used to show that C24 depends on clearInterval).
SinkCloseKeepsTimer(k) ==
  /\ sinks[k].state \in {"live", "broken"}
  /\ sinks' = [sinks EXCEPT ![k].state = "closed", ![k].until = Len(pubs)]
  /\ sseClients' = RemoveClient(sseClients, sinks[k].apiKey, k)
  /\ UNCHANGED <<events, evHandlers, pubs, media, extra>>
  /\ UNCHANGED <<lifecycle, req>>

\* req.on("close"): the interval is cleared and the response leaves the
\* tenant's set (the map's entry is deleted with its last response)
SinkClose(k) ==
  /\ sinks[k].state \in {"live", "broken"}
  /\ sinks' = [sinks EXCEPT ![k].state = "closed", ![k].until = Len(pubs),
                            ![k].ping = FALSE]
  /\ sseClients' = RemoveClient(sseClients, sinks[k].apiKey, k)
  /\ UNCHANGED <<events, evHandlers, pubs, media, extra>>
  /\ UNCHANGED <<lifecycle, req>>

\* ------------------------------------------------------ createSocketForUser
\* ensureSessionDir: make the tenant's directory when it does not exist
ensureSessionDir(t) ==
  [sessDir EXCEPT ![t] = IF @ = "absent" THEN "empty" ELSE @]

\* Variant timer callback without its `finally`
\* (used to show that C36 depends on it).
CallerResumesGuardKept(t, from) == UNCHANGED reconnecting

\* What ends a createSocketForUser call for its caller.  The connect endpoint
\* answers; the timer callback runs its `finally` and lowers the guard.
CallerResumes(t, from) ==
  reconnecting' = IF from = "timer" THEN [reconnecting EXCEPT ![t] = FALSE]
                  ELSE reconnecting

\* Variant head of createSocketForUser without the registry check
\* (used to show that C17 depends on the check).
EnterCreateAlways(t, from, rest) ==
  /\ creating' = [rest EXCEPT ![Call(t, from, "version")] = @ + 1]
  /\ sessDir' = ensureSessionDir(t)
  /\ UNCHANGED reconnecting

\* The synchronous head of createSocketForUser, run by a caller whose other
\* suspended calls are `rest`: the registry check, ensureSessionDir, and the
\* start of fetchLatestBaileysVersion.
EnterCreate(t, from, rest) ==
  IF sessions[t] # 0
  THEN /\ creating' = rest
       /\ CallerResumes(t, from)
       /\ UNCHANGED sessDir
  ELSE /\ creating' = [rest EXCEPT ![Call(t, from, "version")] = @ + 1]
       /\ sessDir' = ensureSessionDir(t)
       /\ UNCHANGED reconnecting

\* a connect request is noted: it ends the time after a logout
ConnectNoted(t) ==
  /\ loggedOut' = [loggedOut EXCEPT ![t] = FALSE]
  /\ logoutReq' = [logoutReq EXCEPT ![t].overlap = (logoutReq[t].pc # "idle")]

\* POST /connect of the first copy: createSocketForUser(req.user) at once
Connect(t) ==
  /\ EnterCreate(t, "connect", creating)
  /\ ConnectNoted(t)
  /\ UNCHANGED <<sessions, socks, timers, handlers>>
  /\ UNCHANGED others

\* POST /connect of the second copy: User.findByPk first
ConnectLookup(t) ==
  /\ creating' = [creating EXCEPT ![Call(t, "connect", "findUser")] = @ + 1]
  /\ ConnectNoted(t)
  /\ UNCHANGED <<sessions, reconnecting, sessDir, socks, timers, handlers>>
  /\ UNCHANGED others

\* the reconnect timer fires: its callback starts User.findOne
TimerFire(t) ==
  /\ timers[t] > 0
  /\ timers' = [timers EXCEPT ![t] = @ - 1]
  /\ creating' = [creating EXCEPT ![Call(t, "timer", "findUser")] = @ + 1]
  /\ UNCHANGED <<sessions, reconnecting, sessDir, socks, handlers, logoutReq, loggedOut>>
  /\ UNCHANGED others

\* The user lookup settles.  With a user the caller enters
\* createSocketForUser; without one (or when the lookup throws) the timer
\* callback skips to its `finally` and the connect endpoint answers 500.
FindUserDone(t, from, found) ==
  /\ creating[Call(t, from, "findUser")] > 0
  /\ LET rest == [creating EXCEPT ![Call(t, from, "findUser")] = @ - 1]
     IN IF found
        THEN EnterCreate(t, from, rest)
        ELSE /\ creating' = rest
             /\ CallerResumes(t, from)
             /\ UNCHANGED sessDir
  /\ UNCHANGED <<sessions, socks, timers, handlers, logoutReq, loggedOut>>
  /\ UNCHANGED others

\* fetchLatestBaileysVersion settles (its failure is caught); the call goes on
\* to useMultiFileAuthState
VersionDone(t, from) ==
  /\ creating[Call(t, from, "version")] > 0
  /\ creating' = [creating EXCEPT ![Call(t, from, "version")] = @ - 1,
                                  ![Call(t, from, "auth")] = @ + 1]
  /\ UNCHANGED <<sessions, reconnecting, sessDir, socks, timers, handlers,
                 logoutReq, loggedOut>>
  /\ UNCHANGED others

\* makeWASocket and the registration of the new socket
\* (opened, outcome and code record the socket's past for the properties:
\* whether it was ever open, what the reconnect branch did for its close, and
\* the reason code that close was classified on; the program reads none)
NewSock(t) ==
  [apiKey |-> t, ws |-> "connecting", opened |-> FALSE, outcome |-> "",
   code |-> Undefined]

\* useMultiFileAuthState settles.  When it resolved (it makes the directory
\* when that is missing) the socket is made and registered, unconditionally;
\* when it rejected, the call throws to its caller.
AuthDone(t, from, ok) ==
  /\ creating[Call(t, from, "auth")] > 0
  /\ creating' = [creating EXCEPT ![Call(t, from, "auth")] = @ - 1]
  /\ CallerResumes(t, from)
  /\ IF ok
     THEN /\ sessDir' = ensureSessionDir(t)
          /\ socks' = Append(socks, NewSock(t))
          /\ sessions' = [sessions EXCEPT ![t] = Len(socks) + 1]
     ELSE UNCHANGED <<sessDir, socks, sessions>>
  /\ UNCHANGED <<timers, handlers, logoutReq, loggedOut>>
  /\ UNCHANGED others

\* ------------------------------------------------- events of the channel
\* The connection.update handler called for a close update: it awaits
\* saveLog("connection_update").  (For qr and open updates the handler only
\* writes audit entries and publishes; it reads and writes none of the
\* variables of this specification.)
NewHandler(s, ld) ==
  [sock |-> s, ld |-> ld, pc |-> "logUpdate", target |-> 0]

\* the socket s once its connection is open
Opened(s) == [socks EXCEPT ![s].ws = "open", ![s].opened = TRUE]

\* the channel reports that the connection is open
EmitOpen(s) ==
  /\ socks[s].ws = "connecting"
  /\ socks' = Opened(s)
  /\ UNCHANGED <<sessions, reconnecting, sessDir, creating, timers, handlers,
                 logoutReq, loggedOut>>
  /\ UNCHANGED others

\* the channel reports that the connection closed, with or without a reason
EmitClose(s, ld) ==
  /\ socks[s].ws # "closed"
  /\ socks' = [socks EXCEPT ![s].ws = "closed"]
  /\ handlers' = handlers \cup {NewHandler(s, ld)}
  /\ UNCHANGED <<sessions, reconnecting, sessDir, creating, timers, logoutReq, loggedOut>>
  /\ UNCHANGED others

\* creds.update -> saveCreds: the credentials are written into the tenant's
\* directory; the write fails when the directory is gone
EmitCreds(s) ==
  /\ socks[s].ws # "closed"
  /\ sessDir[socks[s].apiKey] = "empty"
  /\ sessDir' = [sessDir EXCEPT ![socks[s].apiKey] = "creds"]
  /\ UNCHANGED <<sessions, reconnecting, socks, creating, timers, handlers,
                 logoutReq, loggedOut>>
  /\ UNCHANGED others

\* sock.logout(): the channel unlinks the device and ends the connection,
\* reporting a close whose reason is loggedOut; on a connection that is
\* already closed it changes nothing (its rejection is caught by the callers)
SocksAfterLogout(s) ==
  IF socks[s].ws # "closed"
  THEN [socks EXCEPT ![s].ws = "closed"]
  ELSE socks

HandlersAfterLogout(s, hs) ==
  IF socks[s].ws # "closed"
  THEN hs \cup {NewHandler(s, LoggedOutDisconnect)}
  ELSE hs

\* --------------------------------------------- connection.update handler
\* lastDisconnect?.error?.output?.statusCode
statusCode(ld) ==
  IF ld = Undefined THEN Undefined
  ELSE IF ld[1].error = Undefined THEN Undefined
  ELSE IF ld[1].error[1].output = Undefined THEN Undefined
  ELSE ld[1].error[1].output[1].statusCode

\* Variant classification: a close without a status code is terminal too
\* (used to show that C8 depends on the strict comparison).
IsLoggedOutOrUnknown(ld) == statusCode(ld) \in {Undefined, Some(LoggedOut)}

\* Variant classification: a close with any status code is terminal
\* (used to show that C7 depends on the comparison with loggedOut).
HasStatusCode(ld) == statusCode(ld) # Undefined

\* statusCode === DisconnectReason.loggedOut
IsLoggedOut(ld) == statusCode(ld) = Some(LoggedOut)

\* saveLog("connection_update") settled: saveLog("connection_close") is awaited
HLogUpdateDone(h, ok) ==
  /\ h \in handlers
  /\ h.pc = "logUpdate"
  /\ handlers' = IF saveLog(ok) = "thrown" THEN handlers \ {h}
                 ELSE (handlers \ {h}) \cup {[h EXCEPT !.pc = "closeLog"]}
  /\ UNCHANGED <<sessions, reconnecting, sessDir, socks, creating, timers,
                 logoutReq, loggedOut>>
  /\ UNCHANGED others

\* Variant reconnect branch that ignores the guard
\* (used to show that C6 depends on the guard).
ScheduleUnguarded(t, s, code) ==
  /\ reconnecting' = [reconnecting EXCEPT ![t] = TRUE]
  /\ timers' = [timers EXCEPT ![t] = @ + 1]
  /\ socks' = [socks EXCEPT ![s].outcome = "scheduled", ![s].code = code]

\* the reconnect branch: schedule one reconnection unless the guard is up
ScheduleReconnect(t, s, code) ==
  IF ~reconnecting[t]
  THEN /\ reconnecting' = [reconnecting EXCEPT ![t] = TRUE]
       /\ timers' = [timers EXCEPT ![t] = @ + 1]
       /\ socks' = [socks EXCEPT ![s].outcome = "scheduled", ![s].code = code]
  ELSE /\ UNCHANGED <<reconnecting, timers>>
       /\ socks' = [socks EXCEPT ![s].outcome = "held", ![s].code = code]

\* saveLog("connection_close") settled: the close is classified.  A logged-out
\* close goes on to saveLog("logged_out"); any other close takes the
\* reconnect branch and the handler returns.
HCloseLogDone(h, ok) ==
  /\ h \in handlers
  /\ h.pc = "closeLog"
  /\ IF saveLog(ok) = "thrown"
     THEN /\ handlers' = handlers \ {h}
          /\ UNCHANGED <<reconnecting, timers, socks>>
     ELSE IF IsLoggedOut(h.ld)
     THEN /\ handlers' = (handlers \ {h}) \cup {[h EXCEPT !.pc = "loggedOutLog"]}
          /\ UNCHANGED <<reconnecting, timers, socks>>
     ELSE /\ handlers' = handlers \ {h}
          /\ ScheduleReconnect(socks[h.sock].apiKey, h.sock, statusCode(h.ld))
  /\ UNCHANGED <<sessions, sessDir, creating, logoutReq, loggedOut>>
  /\ UNCHANGED others

\* fs.rmSync of the tenant's directory
rmSessDir(t) == [sessDir EXCEPT ![t] = "absent"]

\* saveLog("logged_out") settled: with a registered session its logout() is
\* awaited; without one the directory is removed, `logged_out` is published
\* and the handler returns.
HLoggedOutLogDone(h, ok) ==
  /\ h \in handlers
  /\ h.pc = "loggedOutLog"
  /\ LET t == socks[h.sock].apiKey
     IN IF saveLog(ok) = "thrown"
        THEN /\ handlers' = handlers \ {h}
             /\ UNCHANGED <<sessDir, loggedOut, socks, pubs, sinks>>
        ELSE IF sessions[t] # 0
        THEN /\ handlers' = (handlers \ {h}) \cup
                  {[h EXCEPT !.pc = "logoutAwait", !.target = sessions[t]]}
             /\ UNCHANGED <<sessDir, loggedOut, socks, pubs, sinks>>
        ELSE /\ handlers' = handlers \ {h}
             /\ sessDir' = rmSessDir(t)
             /\ socks' = [socks EXCEPT ![h.sock].outcome = "cleaned"]
             /\ sendSSE(t, "logged_out", <<>>, 0)
             /\ loggedOut' = [loggedOut EXCEPT ![t] = TRUE]
  /\ UNCHANGED <<sessions, reconnecting, creating, timers, logoutReq>>
  /\ UNCHANGED <<req, sseClients, events, evHandlers, media, extra>>

\* logout() of the session that was registered settled: whatever the registry
\* holds now is deleted, the directory is removed, `logged_out` is published
HLogoutDone(h) ==
  /\ h \in handlers
  /\ h.pc = "logoutAwait"
  /\ LET t == socks[h.sock].apiKey
     IN /\ socks' = [SocksAfterLogout(h.target) EXCEPT
                        ![h.sock].outcome = "cleaned"]
        /\ handlers' = HandlersAfterLogout(h.target, handlers \ {h})
        /\ sessions' = [sessions EXCEPT ![t] = 0]
        /\ sessDir' = rmSessDir(t)
        /\ sendSSE(t, "logged_out", <<>>, 0)
        /\ loggedOut' = [loggedOut EXCEPT ![t] = TRUE]
  /\ UNCHANGED <<reconnecting, creating, timers, logoutReq>>
  /\ UNCHANGED <<req, sseClients, events, evHandlers, media, extra>>

\* ------------------------------- connection.update handler, qr and open
\* the qr strings an update may carry (`if (qr)` skips an empty one)
QrStrings == {<<"2", "@">>}

\* the sockets' qr and open updates so far
EventIds == 1..Len(events)

QrEventsOf(s) == {e \in EventIds : events[e].sock = s /\ events[e].kind = "qr"}

\* Buffer.from(str).toString("base64"): four characters for every three
Base64(str) == [i \in 1..(4 * ((Len(str) + 2) \div 3)) |-> "b"]

\* Variant rendering that gives up with an empty artifact
\* (used to show that C16 depends on the fallback).
qrStringToDataUrlOrEmpty(qr, ok) ==
  IF ok THEN <<"data:image/png;base64,", "png">> ELSE <<>>

\* qrStringToDataUrl: the PNG data URL of qrcode.toDataURL, or when that
\* throws (ok = FALSE) the text data URL of the string itself
qrStringToDataUrl(qr, ok) ==
  IF ok THEN <<"data:image/png;base64,", "png">>
  ELSE <<"data:text/plain;base64,">> \o Base64(qr)

\* the handler called for the update number e: it awaits
\* saveLog("connection_update")
NewEvHandler(e) == [ev |-> e, pc |-> "logUpdate", data |-> <<>>]

\* the channel reports a linking artifact while the device is not linked
EmitQr(s, qr) ==
  /\ socks[s].ws = "connecting"
  /\ events' = Append(events, [sock |-> s, kind |-> "qr", qr |-> qr])
  /\ evHandlers' = evHandlers \cup {NewEvHandler(Len(events) + 1)}
  /\ UNCHANGED <<sseClients, sinks, pubs, media, extra>>
  /\ UNCHANGED <<lifecycle, req>>

\* the channel reports that the connection is open, and the handler of the
\* update is followed
EmitOpenHandled(s) ==
  /\ socks[s].ws = "connecting"
  /\ socks' = Opened(s)
  /\ events' = Append(events, [sock |-> s, kind |-> "open", qr |-> <<>>])
  /\ evHandlers' = evHandlers \cup {NewEvHandler(Len(events) + 1)}
  /\ UNCHANGED <<sessions, reconnecting, sessDir, creating, timers, handlers,
                 logoutReq, loggedOut>>
  /\ UNCHANGED <<req, sseClients, sinks, pubs, media, extra>>

\* a handler that ends without a further step
EvHandlerEnds(h) ==
  /\ evHandlers' = evHandlers \ {h}
  /\ UNCHANGED <<sinks, pubs>>

\* saveLog("connection_update") settled for a qr update: qrStringToDataUrl is
\* awaited
HQrLogUpdateDone(h, ok) ==
  /\ h \in evHandlers
  /\ events[h.ev].kind = "qr"
  /\ h.pc = "logUpdate"
  /\ IF saveLog(ok) = "thrown" THEN EvHandlerEnds(h)
     ELSE /\ evHandlers' = (evHandlers \ {h}) \cup {[h EXCEPT !.pc = "render"]}
          /\ UNCHANGED <<sinks, pubs>>
  /\ UNCHANGED <<sseClients, events, media, extra>>
  /\ UNCHANGED <<lifecycle, req>>

\* qrStringToDataUrl settled: saveLog("qr_generated") is awaited
HQrRendered(h, ok) ==
  /\ h \in evHandlers
  /\ h.pc = "render"
  /\ evHandlers' = (evHandlers \ {h}) \cup
        {[h EXCEPT !.pc = "logQr",
                   !.data = qrStringToDataUrl(events[h.ev].qr, ok)]}
  /\ UNCHANGED <<sseClients, sinks, events, pubs, media, extra>>
  /\ UNCHANGED <<lifecycle, req>>

\* saveLog("qr_generated") settled: `qr` is published and the handler returns
HQrLogDone(h, ok) ==
  /\ h \in evHandlers
  /\ h.pc = "logQr"
  /\ IF saveLog(ok) = "thrown" THEN EvHandlerEnds(h)
     ELSE /\ evHandlers' = evHandlers \ {h}
          /\ sendSSE(socks[events[h.ev].sock].apiKey, "qr", h.data, h.ev)
  /\ UNCHANGED <<sseClients, events, media, extra>>
  /\ UNCHANGED <<lifecycle, req>>

\* saveLog("connection_update") settled for an open update: `connected` is
\* published and saveLog("connection_open") is awaited
HOpenLogUpdateDone(h, ok) ==
  /\ h \in evHandlers
  /\ events[h.ev].kind = "open"
  /\ h.pc = "logUpdate"
  /\ IF saveLog(ok) = "thrown" THEN EvHandlerEnds(h)
     ELSE /\ evHandlers' = (evHandlers \ {h}) \cup {[h EXCEPT !.pc = "logOpen"]}
          /\ sendSSE(socks[events[h.ev].sock].apiKey, "connected", <<>>, h.ev)
  /\ UNCHANGED <<sseClients, events, media, extra>>
  /\ UNCHANGED <<lifecycle, req>>

\* saveLog("connection_open") settled: `qr_cleared` is published and the
\* handler returns
HOpenLogDone(h, ok) ==
  /\ h \in evHandlers
  /\ h.pc = "logOpen"
  /\ IF saveLog(ok) = "thrown" THEN EvHandlerEnds(h)
     ELSE /\ evHandlers' = evHandlers \ {h}
          /\ sendSSE(socks[events[h.ev].sock].apiKey, "qr_cleared", <<>>, h.ev)
  /\ UNCHANGED <<sseClients, events, media, extra>>
  /\ UNCHANGED <<lifecycle, req>>

\* ------------------------------------------------------------ POST /logout
\* the request arrives: with a registered session its logout() is awaited;
\* without one the directory is removed, `logged_out` is published and
\* saveLog("logout") is awaited
Logout(t) ==
  /\ logoutReq[t].pc = "idle"
  /\ IF sessions[t] # 0
     THEN /\ logoutReq' = [logoutReq EXCEPT ![t].pc = "logoutAwait",
                                             ![t].target = sessions[t]]
          /\ UNCHANGED sessDir
          /\ UNCHANGED <<pubs, sinks>>
     ELSE /\ logoutReq' = [logoutReq EXCEPT ![t].pc = "log"]
          /\ sessDir' = rmSessDir(t)
          /\ sendSSE(t, "logged_out", <<>>, 0)
  /\ UNCHANGED <<sessions, reconnecting, socks, creating, timers, handlers, loggedOut>>
  /\ UNCHANGED <<req, sseClients, events, evHandlers, media, extra>>

\* sock.logout() settled (its rejection is swallowed): the registry entry is
\* deleted, the directory removed, `logged_out` published, saveLog awaited
LogoutCallDone(t) ==
  /\ logoutReq[t].pc = "logoutAwait"
  /\ socks' = SocksAfterLogout(logoutReq[t].target)
  /\ handlers' = HandlersAfterLogout(logoutReq[t].target, handlers)
  /\ sessions' = [sessions EXCEPT ![t] = 0]
  /\ sessDir' = rmSessDir(t)
  /\ sendSSE(t, "logged_out", <<>>, 0)
  /\ logoutReq' = [logoutReq EXCEPT ![t].pc = "log", ![t].target = 0]
  /\ UNCHANGED <<reconnecting, creating, timers, loggedOut>>
  /\ UNCHANGED <<req, sseClients, events, evHandlers, media, extra>>

\* saveLog("logout") settled: the request is answered {success: true}
LogoutLogDone(t) ==
  /\ logoutReq[t].pc = "log"
  /\ logoutReq' = [logoutReq EXCEPT ![t] = IdleLogout]
  /\ loggedOut' = [loggedOut EXCEPT ![t] = ~logoutReq[t].overlap]
  /\ UNCHANGED <<sessions, reconnecting, sessDir, socks, creating, timers, handlers>>
  /\ UNCHANGED others

\* ------------------------------------------------------ command dispatcher
\* the commands of the dispatcher (the router's POST routes that use the socket)
Commands ==
  {"send-text", "send-media", "send-buttons", "send-template", "broadcast",
   "mark-read", "presence", "block", "unblock", "group-create", "group-add",
   "group-remove", "group-promote", "group-demote", "download-media",
   "profile-update", "profile-picture"}

\* Request bodies, as far as a handler tells them apart: "valid" has every
\* required field, "invalid" lacks one.  send-media takes its payload from a
\* url ("url") or from base64 ("valid"), or has neither ("nosource").
Bodies(cmd) ==
  IF cmd = "send-media" THEN {"valid", "url", "nosource", "invalid"}
  ELSE {"valid", "invalid"}

\* broadcast sends to body.numbers, one by one (0: the array is empty); every
\* other command invokes the socket once
Recipients(cmd) == IF cmd = "broadcast" THEN 0..MaxRecipients ELSE {1}

\* the handlers of the second copy that validate the body before they look
\* the session up
ValidatesFirst(cmd, copy) ==
  copy = 2 /\ cmd \in {"profile-update", "profile-picture"}

\* the handlers that swallow a failure of the socket operation
SwallowsFailure(cmd) == cmd \in {"profile-update", "profile-picture"}

\* res.status(status).json({error}) or res.json({success: true})
Answer(r, status, error) ==
  [r EXCEPT !.pc = "done", !.status = status, !.error = error]

\* res.json({success: true, ...}): broadcast's response carries its results
AnswerSuccess(r) ==
  [r EXCEPT !.pc = "done", !.status = 200, !.error = "",
            !.out = IF r.cmd = "broadcast" THEN r.results ELSE <<>>]

\* the socket operation is invoked and awaited
Invoke(r) == [r EXCEPT !.pc = "op", !.invoked = @ + 1]

\* what a handler does once the session is found and the body is accepted
Proceed(r) ==
  IF r.cmd = "send-media" /\ r.body = "url" THEN [r EXCEPT !.pc = "fetch"]
  ELSE IF r.n = 0 THEN AnswerSuccess(r)
  ELSE Invoke(r)

\* The synchronous head of a command handler: the session lookup and the
\* validation of the body, in the handler's order, then the first await.
Dispatch(t, cmd, copy, body, n) ==
  /\ req.pc = "idle"
  /\ LET r == [IdleReq EXCEPT !.apiKey = t, !.cmd = cmd, !.copy = copy,
                              !.body = body, !.n = n, !.found = sessions[t],
                              !.ws = IF sessions[t] = 0 THEN "none"
                                     ELSE socks[sessions[t]].ws]
         noSock == sessions[t] = 0
         badBody == body \in {"invalid", "nosource"}
     IN req' = IF ValidatesFirst(cmd, copy)
               THEN IF badBody THEN Answer(r, 400, "InvalidRequest")
                    ELSE IF noSock THEN Answer(r, 400, "SessionNotConnected")
                    ELSE Proceed(r)
               ELSE IF noSock THEN Answer(r, 400, "SessionNotConnected")
                    ELSE IF badBody THEN Answer(r, 400, "InvalidRequest")
                    ELSE Proceed(r)
  /\ UNCHANGED lifecycle
  /\ UNCHANGED side

\* send-media: axios.get settled; its failure is answered with the message
FetchDone(ok) ==
  /\ req.pc = "fetch"
  /\ req' = IF ok THEN Invoke(req) ELSE Answer(req, 500, "FetchError")
  /\ UNCHANGED lifecycle
  /\ UNCHANGED side

\* Variant in which a failed send is skipped and the loop goes on
\* (used to show that C18 depends on the abort).
OpDoneTolerant(ok) ==
  /\ req.pc = "op"
  /\ LET r == [req EXCEPT !.failed = @ \/ ~ok]
     IN req' = [r EXCEPT !.pc = "log",
                         !.results = IF ok /\ r.cmd = "broadcast"
                                     THEN Append(@, r.invoked) ELSE @]
  /\ UNCHANGED lifecycle
  /\ UNCHANGED side

\* the socket operation settled: on success (or when the handler swallows
\* the failure) saveLog is awaited, else the failure's message is answered
OpDone(ok) ==
  /\ req.pc = "op"
  /\ LET r == [req EXCEPT !.failed = @ \/ ~ok]
     IN req' = IF ok
               THEN [r EXCEPT !.pc = "log",
                              !.results = IF r.cmd = "broadcast"
                                          THEN Append(@, r.invoked) ELSE @]
               ELSE IF SwallowsFailure(r.cmd) THEN [r EXCEPT !.pc = "log"]
               ELSE Answer(r, 500, "CapabilityError")
  /\ UNCHANGED lifecycle
  /\ UNCHANGED side

\* saveLog settled, its write done (ok) or failed: broadcast goes on to its
\* next recipient, every other command (and broadcast after its last
\* recipient) answers success.  An exception out of saveLog would reach the
\* handler's catch.
LogDone(ok) ==
  /\ req.pc = "log"
  /\ LET r == [req EXCEPT !.logged = IF EntryStored(ok) THEN @ + 1 ELSE @]
     IN req' = IF saveLog(ok) = "thrown" THEN Answer(r, 500, "AuditError")
               ELSE IF r.invoked < r.n THEN Invoke(r)
               ELSE AnswerSuccess(r)
  /\ UNCHANGED lifecycle
  /\ UNCHANGED side

\* the answered request is forgotten; the next one may arrive
Forget ==
  /\ req.pc = "done"
  /\ req' = IdleReq
  /\ UNCHANGED lifecycle
  /\ UNCHANGED side

\* ------------------------------------------------- send-media: the message
\* File names are sequences of pieces: a dot, a slash, or a run of letters
\* and digits.
Words ==
  {"a", "jpg", "JPG", "jpeg", "png", "webp", "mp4", "Mp4", "mkv", "mov",
   "mp3", "wav", "ogg", "txt"}

Pieces == {".", "/"} \cup Words

FileNames == UNION {[1..n -> Pieces] : n \in 0..MaxName}

\* the body's filename: absent, or a string
GivenNames == {Undefined} \cup {Some(n) : n \in FileNames}

\* `filename = "file"` in the destructuring of the body
DeclaredName(given) == IF given = Undefined THEN <<"file">> ELSE given[1]

\* a path without its trailing slashes
RECURSIVE StripSlashes(_)
StripSlashes(name) ==
  IF name # <<>> /\ name[Len(name)] = "/"
  THEN StripSlashes(SubSeq(name, 1, Len(name) - 1))
  ELSE name

\* the position of the last piece c of a path, 0 when it has none
LastIndexOf(name, c) ==
  LET at == {i \in 1..Len(name) : name[i] = c}
  IN IF at = {} THEN 0 ELSE CHOOSE i \in at : \A j \in at : j <= i

\* the last segment of a path
Basename(name) ==
  LET p == StripSlashes(name)
  IN SubSeq(p, LastIndexOf(p, "/") + 1, Len(p))

\* path.extname (posix): from the last dot of the last segment to its end;
\* empty when the segment has no dot, starts with its only dot, or is ".."
extname(name) ==
  LET b == Basename(name)
      d == LastIndexOf(b, ".")
  IN IF d = 0 \/ d = 1 \/ b = <<".", ".">> THEN <<>>
     ELSE SubSeq(b, d, Len(b))

\* Variant of toLowerCase that keeps the case
\* (used to show that C19 depends on the lower-casing).
KeepCase(ext) == ext

\* String.prototype.toLowerCase
toLowerCase(ext) ==
  [i \in 1..Len(ext) |-> IF ext[i] = "JPG" THEN "jpg"
                         ELSE IF ext[i] = "Mp4" THEN "mp4"
                         ELSE ext[i]]

ImageExts == {<<".", "jpg">>, <<".", "jpeg">>, <<".", "png">>, <<".", "webp">>}
VideoExts == {<<".", "mp4">>, <<".", "mkv">>, <<".", "mov">>}
AudioExts == {<<".", "mp3">>, <<".", "wav">>, <<".", "ogg">>}

\* the if/else chain over the extension
MessageKind(filename) ==
  LET ext == toLowerCase(extname(filename))
  IN IF ext \in ImageExts THEN "image"
     ELSE IF ext \in VideoExts THEN "video"
     ELSE IF ext \in AudioExts THEN "audio"
     ELSE "document"

\* send-media reads the body
PickFile(given) ==
  /\ media.pc = "idle"
  /\ media' = [pc |-> "named", filename |-> DeclaredName(given), kind |-> ""]
  /\ UNCHANGED <<sseClients, sinks, events, evHandlers, pubs>>
  /\ UNCHANGED <<lifecycle, req, extra>>

\* send-media builds the message for the payload
BuildMessage ==
  /\ media.pc = "named"
  /\ media' = [media EXCEPT !.pc = "built", !.kind = MessageKind(media.filename)]
  /\ UNCHANGED <<sseClients, sinks, events, evHandlers, pubs>>
  /\ UNCHANGED <<lifecycle, req, extra>>

\* the message is handed to the socket; the next request may arrive
MessageSent ==
  /\ media.pc = "built"
  /\ media' = IdleMedia
  /\ UNCHANGED <<sseClients, sinks, events, evHandlers, pubs>>
  /\ UNCHANGED <<lifecycle, req, extra>>

\* -------------------------------------------------- messages.upsert handler
\* A message of a batch, as far as the handler tells them apart: without a
\* key ("nokey"), with the remote id status@broadcast ("status"), or with
\* the remote id of a chat ("chat").
MsgKinds == {"nokey", "status", "chat"}

\* m.messages (an absent list is read as the empty one: `m.messages || []`)
Batches == UNION {[1..n -> MsgKinds] : n \in 0..MaxBatch}

\* m.type
BatchTypes == {"notify", "append"}

\* `if (!msg.key || msg.key.remoteJid === "status@broadcast") continue`
Skipped(msg) == msg \in {"nokey", "status"}

\* the loop's next message at or after position from that is not skipped
\* (0: the loop is over)
NextReceipt(msgs, from) ==
  LET js == {j \in from..Len(msgs) : ~Skipped(msgs[j])}
  IN IF js = {} THEN 0 ELSE CHOOSE j \in js : \A k \in js : j <= k

\* the handler's record once sendSSE(apiKey, "message", ...) was called
Published(b) == [b EXCEPT !.order = Append(@, "publish")]

\* the handler's record when sendReadReceipt is called for message j
Receipting(b, j) ==
  [b EXCEPT !.pc = "receipt", !.i = j, !.attempted = Append(@, j),
            !.order = Append(@, "receipt")]

\* the channel delivers a batch: the handler awaits saveLog("message_in")
EmitMessages(s, copy, type, msgs) ==
  /\ inbox.pc = "idle"
  /\ socks[s].ws # "closed"
  /\ inbox' = [IdleInbox EXCEPT !.pc = "log", !.sock = s, !.copy = copy,
                                !.type = type, !.msgs = msgs]
  /\ UNCHANGED <<sseClients, sinks, events, evHandlers, pubs, media>>
  /\ UNCHANGED <<lifecycle, req, notInbox>>

\* the receipts are over (or there were none): the first copy publishes the
\* batch now, the second did so before the loop
BatchDone(b) ==
  /\ inbox' = [(IF b.copy = 1 THEN Published(b) ELSE b) EXCEPT !.pc = "done"]
  /\ IF b.copy = 1
     THEN sendSSE(socks[b.sock].apiKey, "message", <<>>, 0)
     ELSE UNCHANGED <<pubs, sinks>>

\* the loop goes on from position from
ReceiptsFrom(b, from) ==
  LET j == IF b.type = "notify" THEN NextReceipt(b.msgs, from) ELSE 0
  IN IF j = 0 THEN BatchDone(b)
     ELSE /\ inbox' = Receipting(b, j)
          /\ UNCHANGED <<pubs, sinks>>

\* saveLog("message_in") settled: the second copy publishes the batch, then
\* the receipts start
MLogDone(ok) ==
  /\ inbox.pc = "log"
  /\ LET b == [inbox EXCEPT !.order = Append(@, "log")]
     IN IF saveLog(ok) = "thrown"
        THEN inbox' = [b EXCEPT !.pc = "done"] /\ UNCHANGED <<pubs, sinks>>
        ELSE IF b.copy = 2
        THEN LET j == IF b.type = "notify" THEN NextReceipt(b.msgs, 1) ELSE 0
             IN /\ sendSSE(socks[b.sock].apiKey, "message", <<>>, 0)
                /\ inbox' = IF j = 0 THEN [Published(b) EXCEPT !.pc = "done"]
                            ELSE Receipting(Published(b), j)
        ELSE ReceiptsFrom(b, 1)
  /\ UNCHANGED <<sseClients, events, evHandlers, media>>
  /\ UNCHANGED <<lifecycle, req, notInbox>>

\* Variant in which a failing receipt ends the handler
\* (used to show that C23 depends on the try around each receipt).
MReceiptDoneAborting(ok) ==
  /\ inbox.pc = "receipt"
  /\ LET b == [inbox EXCEPT !.failed = IF ok THEN @ ELSE @ \cup {inbox.i}]
     IN IF ok THEN ReceiptsFrom(b, b.i + 1)
        ELSE inbox' = [b EXCEPT !.pc = "done"] /\ UNCHANGED <<pubs, sinks>>
  /\ UNCHANGED <<sseClients, events, evHandlers, media>>
  /\ UNCHANGED <<lifecycle, req, notInbox>>

\* sendReadReceipt settled or threw (ok = FALSE): a failure is ignored and
\* the loop goes on
MReceiptDone(ok) ==
  /\ inbox.pc = "receipt"
  /\ LET b == [inbox EXCEPT !.failed = IF ok THEN @ ELSE @ \cup {inbox.i}]
     IN ReceiptsFrom(b, b.i + 1)
  /\ UNCHANGED <<sseClients, events, evHandlers, media>>
  /\ UNCHANGED <<lifecycle, req, notInbox>>

\* the handler has returned; the next batch may arrive
MForget ==
  /\ inbox.pc = "done"
  /\ inbox' = IdleInbox
  /\ UNCHANGED <<sseClients, sinks, events, evHandlers, pubs, media>>
  /\ UNCHANGED <<lifecycle, req, notInbox>>

\* ------------------------------------------------------- the mounted router
\* Paths are sequences of segments, below the application's mount of the WA
\* routes: /qr-stream/connect is <<"qr-stream", "connect">>.
Methods == {"GET", "POST"}

\* the routes of the controller's router
GetRoutes == {"qr-stream", "status", "chats", "messages", "contacts"}

PostRoutes == (Commands \cup {"connect", "logout"})

\* the segments requests are made of
Segments == {"qr-stream", "connect", "send-text", "logout", "profile-update",
             "other"}

Paths == {<<a>> : a \in Segments} \cup {<<a, b>> : a \in Segments, b \in Segments}

\* the keys a request may carry: none, a key no user has, a user's key
Keys == {"none", "unknown"} \cup OneTenant

\* the response object of the next stream request
NextSink == CHOOSE k \in Sinks : \A j \in Sinks : sinks[j].state = "new" => k <= j

\* the controller's router: the route that matches the method and the path
\* left after the mount point ("none": the router calls next)
WaRoute(method, path) ==
  IF Len(path) = 1
       /\ \/ method = "GET" /\ path[1] \in GetRoutes
          \/ method = "POST" /\ path[1] \in PostRoutes
  THEN path[1] ELSE "none"

\* router.use(prefix, ...): the layer takes the paths that start with the
\* prefix and hands on what follows it
UnderMount(prefix, path) == Len(path) >= 1 /\ path[1] = prefix

\* the key the qr-stream handler subscribes under
StreamKey(r) ==
  IF r.copy = 1
  THEN IF r.header # "none" THEN r.header ELSE r.query
  ELSE IF r.query # "none" THEN r.query
       ELSE IF r.user # "none" THEN r.user
       ELSE r.header

\* The controller's handler h runs for the request r, up to its response or
\* its hand-over.  The stream handler subscribes under StreamKey (a key of
\* no tenant gets a set of its own, which nothing publishes to).  A command
\* handler reads req.user first: without it, connect of the second copy
\* answers 401, the profile handlers of the second copy answer 400 for a
\* body they reject, and every other handler throws on req.user.apiKey (or
\* on user.apiKey in createSocketForUser) and answers 500; with it the
\* handler goes on as the sections above describe.
RunHandler(r, h, layer) ==
  LET q == [r EXCEPT !.pc = "done", !.handler = h, !.layer = layer]
  IN IF h = "qr-stream"
     THEN IF StreamKey(r) = "none"
          THEN /\ http' = [q EXCEPT !.status = 401]
               /\ UNCHANGED <<sseClients, sinks>>
          ELSE IF StreamKey(r) \in Tenants
          THEN /\ Join(NextSink, StreamKey(r))
               /\ http' = [q EXCEPT !.status = 200, !.key = StreamKey(r),
                                    !.sink = NextSink]
          ELSE /\ http' = [q EXCEPT !.status = 200, !.key = StreamKey(r)]
               /\ UNCHANGED <<sseClients, sinks>>
     ELSE /\ UNCHANGED <<sseClients, sinks>>
          /\ http' = IF r.user # "none" THEN [q EXCEPT !.pc = "handler"]
                     ELSE IF h = "connect" /\ r.copy = 2
                     THEN [q EXCEPT !.status = 401]
                     ELSE IF ValidatesFirst(h, r.copy) /\ r.body = "invalid"
                     THEN [q EXCEPT !.status = 400]
                     ELSE [q EXCEPT !.status = 500]

\* verifyApiKey, up to its await: without the header it answers 401
Verify(r) ==
  /\ http' = IF r.header = "none" THEN [r EXCEPT !.pc = "done", !.status = 401]
             ELSE [r EXCEPT !.pc = "findOne"]
  /\ UNCHANGED <<sseClients, sinks>>

\* A request arrives at the mounted router.  The first layer,
\* router.use("/qr-stream", waRouter), takes the paths under /qr-stream and
\* runs the controller's router on the rest of the path, without
\* verification; when no route matches there, or the path is elsewhere, the
\* second layer, router.use("/", verifyApiKey, waRouter), is next.
HttpArrive(method, path, header, query, copy, body) ==
  /\ http.pc = "idle"
  /\ LET r == [IdleHttp EXCEPT !.method = method, !.path = path,
                               !.header = header, !.query = query,
                               !.copy = copy, !.body = body]
         h == IF UnderMount("qr-stream", path) THEN WaRoute(method, Tail(path))
              ELSE "none"
     IN IF h # "none" THEN RunHandler(r, h, "open") ELSE Verify(r)
  /\ UNCHANGED <<events, evHandlers, pubs, media, notHttp>>
  /\ UNCHANGED <<lifecycle, req>>

\* User.findOne settled in verifyApiKey: a failure is answered 500, an
\* unknown key 401; else req.user is set and the controller's router runs on
\* the whole path (no route: 404)
HttpUserFound(ok) ==
  /\ http.pc = "findOne"
  /\ IF ~ok
     THEN http' = [http EXCEPT !.pc = "done", !.status = 500]
          /\ UNCHANGED <<sseClients, sinks>>
     ELSE IF http.header \notin Tenants
     THEN http' = [http EXCEPT !.pc = "done", !.status = 401]
          /\ UNCHANGED <<sseClients, sinks>>
     ELSE LET r == [http EXCEPT !.user = http.header]
              h == WaRoute(r.method, r.path)
          IN IF h = "none"
             THEN http' = [r EXCEPT !.pc = "done", !.status = 404]
                  /\ UNCHANGED <<sseClients, sinks>>
             ELSE RunHandler(r, h, "guarded")
  /\ UNCHANGED <<events, evHandlers, pubs, media, notHttp>>
  /\ UNCHANGED <<lifecycle, req>>

\* the request is over; the next one may arrive
HttpForget ==
  /\ http.pc \in {"done", "handler"}
  /\ http' = IdleHttp
  /\ UNCHANGED <<sseClients, sinks, events, evHandlers, pubs, media, notHttp>>
  /\ UNCHANGED <<lifecycle, req>>

\* ---------------------------------------------------- the payment webhook
\* notification.gross_amount is a string: the digits of a whole amount,
\* followed or not by a decimal part, or no number at all ("abc"), or the
\* field is missing (<<>>).
Wholes == {"35000", "34000"}

Decimals == {".00", ".50"}

GrossAmounts ==
  {<<>>, <<"abc">>} \cup {<<w>> : w \in Wholes}
    \cup {<<w, d>> : w \in Wholes, d \in Decimals}

\* the number a run of digits denotes
Number(w) == IF w = "35000" THEN 35000 ELSE 34000

\* parseInt(notification.gross_amount || 0, 10): the leading digits of the
\* string, NaN when it has none, 0 for the missing field
parseInt(g) ==
  IF g = <<>> THEN 0
  ELSE IF g[1] \in Wholes THEN Number(g[1])
  ELSE NaN

\* notification.transaction_status ("": the field is missing)
TransactionStatuses == {"settlement", "Capture", "SUCCESS", "pending", ""}

\* (transaction_status || "").toString().toLowerCase()
StatusLower(st) ==
  IF st = "Capture" THEN "capture"
  ELSE IF st = "SUCCESS" THEN "success"
  ELSE st

\* the statuses that activate premium
IsSuccess(st) == StatusLower(st) \in {"settlement", "capture", "success"}

\* A signature is represented by what it was computed over: the order id
\* and the gross amount together with the server key, or with another key
\* ("forged").  (status_code is left out: it only adds to the signed text.)
Signatures ==
  {<<"forged">>} \cup {<<o, g>> : o \in Orders, g \in GrossAmounts}

Notifications ==
  [order_id : Orders, gross_amount : GrossAmounts,
   transaction_status : TransactionStatuses, signature_key : Signatures]

\* verifyMidtransSignature: sha512 of order_id, status_code, gross_amount and
\* the server key, compared with signature_key
verifyMidtransSignature(n) ==
  n.signature_key = <<n.order_id, n.gross_amount>>

\* res.status(status).json(...) of the webhook
HookAnswer(status) == [pc |-> "done", n |-> pay.hook.n, status |-> status]

\* The webhook is called: an invalid signature is answered 403, else
\* Payment.findOne is awaited
Notify(n) ==
  /\ pay.hook.pc = "idle"
  /\ \A u \in Users : pay.users[u].premiumUntil < MaxUntil
  /\ pay' = [pay EXCEPT !.hook =
               IF verifyMidtransSignature(n)
               THEN [pc |-> "findOne", n |-> n, status |-> 0]
               ELSE [pc |-> "done", n |-> n, status |-> 403]]
  /\ UNCHANGED <<lifecycle, req>>
  /\ UNCHANGED <<sseClients, sinks, events, evHandlers, pubs, media, notPay>>

\* Payment.findOne settled: without record 404; else the notification is put
\* on the record, and with it the status amount_mismatch or the
\* transaction status, and payment.save is awaited
HookPaymentFound(ok) ==
  /\ pay.hook.pc = "findOne"
  /\ LET n == pay.hook.n
         payment == pay.payments[n.order_id]
     IN pay' = [pay EXCEPT !.hook =
                  IF ~ok THEN HookAnswer(500)
                  ELSE IF ~payment.exists THEN HookAnswer(404)
                  ELSE IF parseInt(n.gross_amount) # payment.amount
                  THEN [@ EXCEPT !.pc = "saveMismatch"]
                  ELSE [@ EXCEPT !.pc = "save"]]
  /\ UNCHANGED <<lifecycle, req>>
  /\ UNCHANGED <<sseClients, sinks, events, evHandlers, pubs, media, notPay>>

\* the record with the notification and the status st, as payment.save
\* writes it
Saved(payment, n, st) == [payment EXCEPT !.notification = n, !.status = st]

\* payment.save settled on the mismatch path: 400
HookMismatchSaved(ok) ==
  /\ pay.hook.pc = "saveMismatch"
  /\ LET n == pay.hook.n
     IN pay' = IF ok
               THEN [pay EXCEPT !.payments[n.order_id] =
                                   Saved(@, n, "amount_mismatch"),
                                !.hook = HookAnswer(400)]
               ELSE [pay EXCEPT !.hook = HookAnswer(500)]
  /\ UNCHANGED <<lifecycle, req>>
  /\ UNCHANGED <<sseClients, sinks, events, evHandlers, pubs, media, notPay>>

\* payment.save settled: for a success status User.findByPk is awaited, else
\* the call is answered
HookSaved(ok) ==
  /\ pay.hook.pc = "save"
  /\ LET n == pay.hook.n
     IN pay' = IF ok
               THEN [pay EXCEPT !.payments[n.order_id] =
                                   Saved(@, n, n.transaction_status),
                                !.hook = IF IsSuccess(n.transaction_status)
                                         THEN [@ EXCEPT !.pc = "findUser"]
                                         ELSE HookAnswer(200)]
               ELSE [pay EXCEPT !.hook = HookAnswer(500)]
  /\ UNCHANGED <<lifecycle, req>>
  /\ UNCHANGED <<sseClients, sinks, events, evHandlers, pubs, media, notPay>>

\* User.findByPk settled: user.save is awaited for the user found
HookUserFound(ok) ==
  /\ pay.hook.pc = "findUser"
  /\ LET u == pay.payments[pay.hook.n.order_id].userId
     IN pay' = [pay EXCEPT !.hook =
                  IF ~ok THEN HookAnswer(500)
                  ELSE IF u \notin Users THEN HookAnswer(200)
                  ELSE [@ EXCEPT !.pc = "saveUser"]]
  /\ UNCHANGED <<lifecycle, req>>
  /\ UNCHANGED <<sseClients, sinks, events, evHandlers, pubs, media, notPay>>

\* the later of the two months
Later(a, b) == IF a > b THEN a ELSE b

\* user.save settled, at the month now: premium is on until one month after
\* the current expiry, or after now when premium has lapsed
HookUserSaved(ok, now) ==
  /\ pay.hook.pc = "saveUser"
  /\ LET u == pay.payments[pay.hook.n.order_id].userId
     IN pay' = IF ok
               THEN [pay EXCEPT !.users[u] =
                                   [premium |-> TRUE,
                                    premiumUntil |-> Later(@.premiumUntil, now) + 1],
                                !.payments[pay.hook.n.order_id].credits = @ + 1,
                                !.hook = HookAnswer(200)]
               ELSE [pay EXCEPT !.hook = HookAnswer(500)]
  /\ UNCHANGED <<lifecycle, req>>
  /\ UNCHANGED <<sseClients, sinks, events, evHandlers, pubs, media, notPay>>

\* the call is over; the next one may arrive
HookForget ==
  /\ pay.hook.pc = "done"
  /\ pay' = [pay EXCEPT !.hook = IdleHook]
  /\ UNCHANGED <<lifecycle, req>>
  /\ UNCHANGED <<sseClients, sinks, events, evHandlers, pubs, media, notPay>>

\* ------------------------------------------------------------- GET /status
\* Variant that answers from the registry alone
\* (used to show that C28 depends on the ready state).
StatusByRegistry(t) ==
  /\ probe.pc = "idle"
  /\ probe' = [pc |-> "done", apiKey |-> t, connected |-> sessions[t] # 0]
  /\ UNCHANGED <<lifecycle, req>>
  /\ UNCHANGED <<sseClients, sinks, events, evHandlers, pubs, media, notProbe>>

\* the status query: the answer is computed in one run from the registry
\* and the socket's ready state
Status(t) ==
  /\ probe.pc = "idle"
  /\ probe' = [pc |-> "done", apiKey |-> t,
               connected |-> sessions[t] # 0 /\ socks[sessions[t]].ws = "open"]
  /\ UNCHANGED <<lifecycle, req>>
  /\ UNCHANGED <<sseClients, sinks, events, evHandlers, pubs, media, notProbe>>

\* the answer was sent; the next query may arrive
StatusForget ==
  /\ probe.pc = "done"
  /\ probe' = IdleProbe
  /\ UNCHANGED <<lifecycle, req>>
  /\ UNCHANGED <<sseClients, sinks, events, evHandlers, pubs, media, notProbe>>

\* ------------------------------------------- forgotPassword, resetPassword
\* res.status(status).json({error}) or res.json({success: true})
AuthAnswer(q, status, error) ==
  [q EXCEPT !.pc = "done", !.status = status, !.error = error]

\* what the auth controller leaves alone
AuthOnly ==
  /\ UNCHANGED <<lifecycle, req>>
  /\ UNCHANGED <<sseClients, sinks, events, evHandlers, pubs, media, notAuth>>

\* POST forgot-password: without email 400, else User.findOne is awaited
ForgotPassword(email) ==
  /\ auth.forgot.pc = "idle"
  /\ auth' = [auth EXCEPT !.forgot =
                IF email = ""
                THEN AuthAnswer(IdleAuthReq, 400, "email required")
                ELSE [IdleAuthReq EXCEPT !.pc = "findOne", !.email = email]]
  /\ AuthOnly

\* User.findOne({email}) settled: without user 404; else a fresh token and
\* its expiry, one hour from now, are put on the instance and user.save is
\* awaited
ForgotUserFound(ok) ==
  /\ auth.forgot.pc = "findOne"
  /\ LET q == auth.forgot
     IN auth' =
          IF ~ok THEN [auth EXCEPT !.forgot = AuthAnswer(q, 500, "thrown")]
          ELSE IF q.email \notin Emails
          THEN [auth EXCEPT !.forgot = AuthAnswer(q, 404, "User not found")]
          ELSE [auth EXCEPT !.issued = @ + 1,
                            !.forgot = [q EXCEPT !.pc = "save",
                                                 !.user = q.email,
                                                 !.token = auth.issued + 1,
                                                 !.exp = auth.now + TokenLife]]
  /\ AuthOnly

\* user.save settled: the token and its expiry are stored, sendMail is awaited
ForgotSaved(ok) ==
  /\ auth.forgot.pc = "save"
  /\ LET q == auth.forgot
     IN auth' =
          IF ok
          THEN [auth EXCEPT !.users[q.user].resetToken = q.token,
                            !.users[q.user].resetTokenExp = q.exp,
                            !.forgot = [q EXCEPT !.pc = "mail"]]
          ELSE [auth EXCEPT !.forgot = AuthAnswer(q, 500, "thrown")]
  /\ AuthOnly

\* sendMail settled: the request is answered
ForgotMailed(ok) ==
  /\ auth.forgot.pc = "mail"
  /\ auth' = [auth EXCEPT !.forgot =
                IF ok THEN AuthAnswer(@, 200, "")
                ELSE AuthAnswer(@, 500, "thrown")]
  /\ AuthOnly

\* the answer was sent; the next request may arrive
ForgotForget ==
  /\ auth.forgot.pc = "done"
  /\ auth' = [auth EXCEPT !.forgot = IdleAuthReq]
  /\ AuthOnly

\* POST reset-password, handled as request r: without token or password 400,
\* else User.findOne is awaited
ResetPassword(r, token, password) ==
  /\ auth.resets[r].pc = "idle"
  /\ auth' = [auth EXCEPT !.resets[r] =
                IF token = 0 \/ password = ""
                THEN AuthAnswer([IdleAuthReq EXCEPT !.token = token,
                                                    !.password = password],
                                400, "token & password required")
                ELSE [IdleAuthReq EXCEPT !.pc = "findOne", !.token = token,
                                         !.password = password]]
  /\ AuthOnly

\* !user.resetTokenExp || new Date() > new Date(user.resetTokenExp)
Expired(exp, now) == exp = 0 - 1 \/ now > exp

\* User.findOne({resetToken}) settled: without user 400 "Invalid token", with
\* an expired token 400 "Token expired"; else bcrypt.hash is awaited
ResetUserFound(r, ok) ==
  /\ auth.resets[r].pc = "findOne"
  /\ LET q == auth.resets[r]
         found == {e \in Emails : auth.users[e].resetToken = q.token}
     IN auth' = [auth EXCEPT !.resets[r] =
          IF ~ok THEN AuthAnswer(q, 500, "thrown")
          ELSE IF found = {} THEN AuthAnswer(q, 400, "Invalid token")
          ELSE LET e == CHOOSE x \in found : TRUE
               IN IF Expired(auth.users[e].resetTokenExp, auth.now)
                  THEN AuthAnswer(q, 400, "Token expired")
                  ELSE [q EXCEPT !.pc = "hash", !.user = e]]
  /\ AuthOnly

\* bcrypt.hash settled: the hash is put on the instance, the token and its
\* expiry are set to null, and user.save is awaited
ResetHashed(r, ok) ==
  /\ auth.resets[r].pc = "hash"
  /\ auth' = [auth EXCEPT !.resets[r] =
                IF ok THEN [@ EXCEPT !.pc = "save"]
                ELSE AuthAnswer(@, 500, "thrown")]
  /\ AuthOnly

\* user.save settled: the instance's password, token and expiry are stored
\* and the request is answered {success: true}
ResetSaved(r, ok) ==
  /\ auth.resets[r].pc = "save"
  /\ LET q == auth.resets[r]
     IN auth' =
          IF ok
          THEN [auth EXCEPT !.users[q.user] =
                                [password |-> Hash(q.password),
                                 resetToken |-> 0, resetTokenExp |-> 0 - 1],
                            !.uses[q.token] = @ + 1,
                            !.resets[r] = AuthAnswer(q, 200, "")]
          ELSE [auth EXCEPT !.resets[r] = AuthAnswer(q, 500, "thrown")]
  /\ AuthOnly

\* the answer was sent; the next request may arrive
ResetForget(r) ==
  /\ auth.resets[r].pc = "done"
  /\ auth' = [auth EXCEPT !.resets[r] = IdleAuthReq]
  /\ AuthOnly

\* an hour passes
Tick ==
  /\ auth.now < MaxClock
  /\ auth' = [auth EXCEPT !.now = @ + 1]
  /\ AuthOnly

\* -------------------------------------------------------------------- Next
\* The session lifecycle of the tenants ts, with at most maxSocks sockets made, at most
\* maxCalls calls of the connect endpoint suspended at once, and closes that
\* report a lastDisconnect of lds.
Lifecycle(ts, maxSocks, maxCalls, lds) ==
  \/ \E t \in ts :
        SumOver(creating, ConnectCalls) < maxCalls /\ Connect(t)
  \/ \E t \in ts :
        SumOver(creating, ConnectCalls) < maxCalls /\ ConnectLookup(t)
  \/ \E t \in ts : TimerFire(t)
  \/ \E t \in ts, from \in {"connect", "timer"}, found \in BOOLEAN :
        FindUserDone(t, from, found)
  \/ \E t \in ts, from \in {"connect", "timer"} : VersionDone(t, from)
  \/ \E t \in ts, from \in {"connect", "timer"}, ok \in BOOLEAN :
        (ok => Len(socks) < maxSocks) /\ AuthDone(t, from, ok)
  \/ \E s \in SockIds : EmitOpen(s)
  \/ \E s \in SockIds, ld \in lds : EmitClose(s, ld)
  \/ \E s \in SockIds : EmitCreds(s)
  \/ \E h \in handlers, ok \in BOOLEAN : HLogUpdateDone(h, ok)
  \/ \E h \in handlers, ok \in BOOLEAN : HCloseLogDone(h, ok)
  \/ \E h \in handlers, ok \in BOOLEAN : HLoggedOutLogDone(h, ok)
  \/ \E h \in handlers : HLogoutDone(h)
  \/ \E t \in ts : Logout(t)
  \/ \E t \in ts : LogoutCallDone(t)
  \/ \E t \in ts : LogoutLogDone(t)

Dispatcher ==
  \/ \E t \in OneTenant, cmd \in Commands, copy \in {1, 2} :
        \E body \in Bodies(cmd), n \in Recipients(cmd) :
          Dispatch(t, cmd, copy, body, n)
  \/ \E ok \in BOOLEAN : FetchDone(ok)
  \/ \E ok \in BOOLEAN : OpDone(ok)
  \/ \E ok \in BOOLEAN : LogDone(ok)
  \/ Forget

Next == Lifecycle(OneTenant, MaxSocks, MaxCalls, SomeDisconnects)

Spec == Init /\ [][Next]_vars

\* the dispatcher beside the lifecycle of one socket
NextDispatch == Lifecycle(OneTenant, SmallSocks, SmallCalls, SomeDisconnects) \/ Dispatcher

SpecDispatch == Init /\ [][NextDispatch]_vars

\* the lifecycle of one socket under every shape of close update
NextClose == Lifecycle(OneTenant, SmallSocks, SmallCalls, LastDisconnects)

SpecClose == Init /\ [][NextClose]_vars

\* One socket from the connect request to its close, with the handlers of
\* its open and close updates followed.
OneSocket ==
  \/ \E t \in OneTenant :
        SumOver(creating, ConnectCalls) < SmallCalls /\ Connect(t)
  \/ \E t \in OneTenant : VersionDone(t, "connect")
  \/ \E t \in OneTenant, ok \in BOOLEAN :
        (ok => Len(socks) < SmallSocks) /\ AuthDone(t, "connect", ok)
  \/ \E s \in SockIds : EmitOpenHandled(s)
  \/ \E h \in evHandlers, ok \in BOOLEAN : HOpenLogUpdateDone(h, ok)
  \/ \E h \in evHandlers, ok \in BOOLEAN : HOpenLogDone(h, ok)
  \/ \E s \in SockIds, ld \in SomeDisconnects : EmitClose(s, ld)
  \/ \E h \in handlers, ok \in BOOLEAN : HLogUpdateDone(h, ok)
  \/ \E h \in handlers, ok \in BOOLEAN : HCloseLogDone(h, ok)
  \/ \E h \in handlers, ok \in BOOLEAN : HLoggedOutLogDone(h, ok)
  \/ \E h \in handlers : HLogoutDone(h)

\* the linking artifacts of the socket, with the handlers of their updates
Artifacts ==
  \/ \E s \in SockIds, qr \in QrStrings :
        Cardinality(QrEventsOf(s)) < MaxQr /\ EmitQr(s, qr)
  \/ \E h \in evHandlers, ok \in BOOLEAN : HQrLogUpdateDone(h, ok)
  \/ \E h \in evHandlers, ok \in BOOLEAN : HQrRendered(h, ok)
  \/ \E h \in evHandlers, ok \in BOOLEAN : HQrLogDone(h, ok)

\* the subscribers ks of the tenants ts come, break and go
Subscribers(ks, ts) ==
  \/ \E k \in ks, t \in ts : Subscribe(k, t)
  \/ \E k \in ks : SinkBreak(k)
  \/ \E k \in ks : SinkClose(k)

\* one send-text command with a valid body
SendingText ==
  \/ \E t \in OneTenant : Dispatch(t, "send-text", 1, "valid", 1)
  \/ \E ok \in BOOLEAN : OpDone(ok)
  \/ \E ok \in BOOLEAN : LogDone(ok)
  \/ Forget

\* the linking of one socket, watched by one subscriber
NextLink == OneSocket \/ Artifacts \/ Subscribers({1}, OneTenant)

SpecLink == Init /\ [][NextLink]_vars

\* one socket, one subscriber and one command, each with its audit writes
NextAudit == OneSocket \/ Subscribers({1}, OneTenant) \/ SendingText

SpecAudit == Init /\ [][NextAudit]_vars

\* The broadcaster with every subscriber and both tenants; what is published
\* are the `logged_out` events of logout requests.
NextStream ==
  \/ Subscribers(Sinks, Tenants)
  \/ \E t \in Tenants : Len(pubs) < MaxPubs /\ Logout(t)
  \/ \E t \in Tenants : LogoutLogDone(t)

SpecStream == Init /\ [][NextStream]_vars

\* the message send-media builds, for every declared file name
NextMedia ==
  \/ \E given \in GivenNames : PickFile(given)
  \/ BuildMessage
  \/ MessageSent

SpecMedia == Init /\ [][NextMedia]_vars

\* The sinks of one tenant with their heartbeats; what is published are the
\* `logged_out` events of logout requests.
NextSinks ==
  \/ Subscribers(Sinks, OneTenant)
  \/ \E k \in Sinks : Beats(k) < MaxBeats /\ Heartbeat(k)
  \/ \E t \in OneTenant : Len(pubs) < MaxPubs /\ Logout(t)
  \/ \E t \in OneTenant : LogoutLogDone(t)

SpecSinks == Init /\ [][NextSinks]_vars

\* the requests that arrive at the mounted router, and the streams they
\* open closing again
NextRoute ==
  \/ \E method \in Methods, path \in Paths, header \in Keys, query \in Keys,
        copy \in {1, 2}, body \in {"valid", "invalid"} :
        HttpArrive(method, path, header, query, copy, body)
  \/ \E ok \in BOOLEAN : HttpUserFound(ok)
  \/ HttpForget
  \/ \E k \in Sinks : SinkClose(k)

SpecRoute == Init /\ [][NextRoute]_vars

\* the webhook calls, one at a time
NextPay ==
  \/ \E n \in Notifications : Notify(n)
  \/ \E ok \in BOOLEAN : HookPaymentFound(ok)
  \/ \E ok \in BOOLEAN : HookMismatchSaved(ok)
  \/ \E ok \in BOOLEAN : HookSaved(ok)
  \/ \E ok \in BOOLEAN : HookUserFound(ok)
  \/ \E ok \in BOOLEAN, now \in 0..MaxNow : HookUserSaved(ok, now)
  \/ HookForget

SpecPay == Init /\ [][NextPay]_vars

\* the notifications that the order o1 was paid, validly signed, with the
\* amount written in either form
PaidNotifications ==
  {n \in Notifications :
     /\ n.order_id = "o1"
     /\ IsSuccess(n.transaction_status)
     /\ n.gross_amount \in {<<"35000">>, <<"35000", ".00">>}
     /\ verifyMidtransSignature(n)}

\* the gateway notifies the settlement of the order, and notifies it again
NextRepay ==
  \/ \E n \in PaidNotifications : Notify(n)
  \/ \E ok \in BOOLEAN : HookPaymentFound(ok)
  \/ \E ok \in BOOLEAN : HookSaved(ok)
  \/ \E ok \in BOOLEAN : HookUserFound(ok)
  \/ \E ok \in BOOLEAN, now \in 0..MaxNow : HookUserSaved(ok, now)
  \/ HookForget

SpecRepay == Init /\ [][NextRepay]_vars

\* status queries beside the lifecycle of one socket
NextStatus ==
  \/ Lifecycle(OneTenant, SmallSocks, SmallCalls, SomeDisconnects)
  \/ \E t \in OneTenant : Status(t)
  \/ StatusForget

SpecStatus == Init /\ [][NextStatus]_vars

\* the batches a socket delivers, with both copies of the handler
Inbox ==
  \/ \E s \in SockIds, copy \in {1, 2}, type \in BatchTypes, msgs \in Batches :
        EmitMessages(s, copy, type, msgs)
  \/ \E ok \in BOOLEAN : MLogDone(ok)
  \/ \E ok \in BOOLEAN : MReceiptDone(ok)
  \/ MForget

\* one socket is made and delivers batches, watched by one subscriber
NextInbox ==
  \/ \E t \in OneTenant :
        SumOver(creating, ConnectCalls) < SmallCalls /\ Connect(t)
  \/ \E t \in OneTenant : VersionDone(t, "connect")
  \/ \E t \in OneTenant, ok \in BOOLEAN :
        (ok => Len(socks) < SmallSocks) /\ AuthDone(t, "connect", ok)
  \/ \E k \in {1}, t \in OneTenant : Subscribe(k, t)
  \/ \E k \in {1} : SinkClose(k)
  \/ Len(pubs) < MaxPubs /\ Inbox

SpecInbox == Init /\ [][NextInbox]_vars

\* the requests for a reset token and the requests that redeem one
NextAuth ==
  \/ \E email \in Emails \cup {"", "nobody"} :
        auth.issued < MaxTokens /\ ForgotPassword(email)
  \/ \E ok \in BOOLEAN : ForgotUserFound(ok)
  \/ \E ok \in BOOLEAN : ForgotSaved(ok)
  \/ \E ok \in BOOLEAN : ForgotMailed(ok)
  \/ ForgotForget
  \/ \E r \in 1..MaxResets, token \in 0..MaxTokens, password \in Passwords \cup {""} :
        ResetPassword(r, token, password)
  \/ \E r \in 1..MaxResets, ok \in BOOLEAN : ResetUserFound(r, ok)
  \/ \E r \in 1..MaxResets, ok \in BOOLEAN : ResetHashed(r, ok)
  \/ \E r \in 1..MaxResets, ok \in BOOLEAN : ResetSaved(r, ok)
  \/ \E r \in 1..MaxResets : ResetForget(r)
  \/ Tick

SpecAuth == Init /\ [][NextAuth]_vars

\* A tenant that connects, logs out (or is logged out by the network) and
\* connects again, one connect request at a time.
NextRelink ==
  \/ \E t \in OneTenant :
        SumOver(creating, ConnectCalls) < SmallCalls /\ Connect(t)
  \/ \E t \in OneTenant : VersionDone(t, "connect")
  \/ \E t \in OneTenant, ok \in BOOLEAN :
        (ok => Len(socks) < MaxSocks) /\ AuthDone(t, "connect", ok)
  \/ \E s \in SockIds : EmitOpen(s)
  \/ \E s \in SockIds : EmitCreds(s)
  \/ \E s \in SockIds : EmitClose(s, LoggedOutDisconnect)
  \/ \E h \in handlers, ok \in BOOLEAN : HLogUpdateDone(h, ok)
  \/ \E h \in handlers, ok \in BOOLEAN : HCloseLogDone(h, ok)
  \/ \E h \in handlers, ok \in BOOLEAN : HLoggedOutLogDone(h, ok)
  \/ \E h \in handlers : HLogoutDone(h)
  \/ \E t \in OneTenant : Logout(t)
  \/ \E t \in OneTenant : LogoutCallDone(t)
  \/ \E t \in OneTenant : LogoutLogDone(t)

SpecRelink == Init /\ [][NextRelink]_vars

\* Both tenants connect and their sessions open, each update with its
\* handler, watched by every subscriber.
NextIsolation ==
  \/ \E t \in Tenants :
        SumOver(creating, ConnectCalls) < SmallCalls /\ Connect(t)
  \/ \E t \in Tenants : VersionDone(t, "connect")
  \/ \E t \in Tenants, ok \in BOOLEAN :
        (ok => Len(socks) < MaxSocks) /\ AuthDone(t, "connect", ok)
  \/ \E s \in SockIds : EmitOpenHandled(s)
  \/ \E h \in evHandlers, ok \in BOOLEAN : HOpenLogUpdateDone(h, ok)
  \/ \E h \in evHandlers, ok \in BOOLEAN : HOpenLogDone(h, ok)
  \/ Subscribers(Sinks, Tenants)

SpecIsolation == Init /\ [][NextIsolation]_vars

\* Scheduling: a timer that is due fires, a promise that can settle does, and
\* the channel opens a connection it is establishing.  Requests and closes
\* are up to the tenant and the network and are not forced.
Fairness ==
  /\ \A t \in OneTenant : WF_vars(TimerFire(t))
  /\ \A t \in OneTenant, from \in {"connect", "timer"} :
       /\ WF_vars(FindUserDone(t, from, TRUE))
       /\ WF_vars(VersionDone(t, from))
       /\ WF_vars(Len(socks) < MaxSocks /\ AuthDone(t, from, TRUE))
  /\ WF_vars(\E s \in SockIds : EmitOpen(s))
  /\ WF_vars(\E h \in handlers, ok \in BOOLEAN : HLogUpdateDone(h, ok))
  /\ WF_vars(\E h \in handlers, ok \in BOOLEAN : HCloseLogDone(h, ok))
  /\ WF_vars(\E h \in handlers, ok \in BOOLEAN : HLoggedOutLogDone(h, ok))
  /\ WF_vars(\E h \in handlers : HLogoutDone(h))
  /\ \A t \in OneTenant : WF_vars(LogoutCallDone(t)) /\ WF_vars(LogoutLogDone(t))

LiveSpec == Init /\ [][Next]_vars /\ Fairness

\* One connect request at a time, for a tenant that may log out and connect
\* again.
NextGuard == Lifecycle(OneTenant, MaxSocks, SmallCalls, SomeDisconnects)

\* Scheduling, whatever the outcome: a timer that is due fires and every
\* promise settles, resolved or rejected.
GuardFairness ==
  /\ \A t \in OneTenant : WF_vars(TimerFire(t))
  /\ \A t \in OneTenant, from \in {"connect", "timer"} :
       /\ WF_vars(\E found \in BOOLEAN : FindUserDone(t, from, found))
       /\ WF_vars(VersionDone(t, from))
       /\ WF_vars(\E ok \in BOOLEAN :
                    (ok => Len(socks) < MaxSocks) /\ AuthDone(t, from, ok))

SpecGuard == Init /\ [][NextGuard]_vars /\ GuardFairness

\* ------------------------------------------------------------- properties
\* the tenant's registered session is open
Connected(t) == sessions[t] # 0 /\ socks[sessions[t]].ws = "open"

\* the tenant's registered session was Connected and its transient close has
\* been handled
Dropped(t) ==
  /\ sessions[t] # 0
  /\ socks[sessions[t]].opened
  /\ socks[sessions[t]].ws = "closed"
  /\ socks[sessions[t]].outcome # ""

\* C1: for every tenant at most one socket is created and live at any time,
\* also when createSocketForUser calls for the tenant overlap.
C1_AtMostOneLiveSocket ==
  \A t \in Tenants : Cardinality(LiveSocks(t)) <= 1

\* C2: when the reconnect timer's callback calls createSocketForUser for a
\* tenant whose Connected session was closed transiently, a fresh attempt is
\* started (the call goes on to open a new socket) instead of returning the
\* closed socket.
C2_TimerOpensFreshChannel ==
  [][\A t \in Tenants :
       (Dropped(t) /\ FindUserDone(t, "timer", TRUE))
         => creating'[Call(t, "timer", "version")]
              = creating[Call(t, "timer", "version")] + 1]_vars

\* C3: a Connected session that was closed transiently is eventually
\* Connected again, unless a logout or terminal close removes it.
C3_EventuallyReconnected ==
  \A t \in Tenants : Dropped(t) ~> (Connected(t) \/ sessions[t] = 0)

\* C4: after a terminal close or a logout and until the tenant requests
\* connect again, a reconnect timer that was scheduled before does not make a
\* socket for the tenant.
C4_NoChannelAfterLogout ==
  [][\A t \in Tenants :
       loggedOut[t] =>
         \/ ~AuthDone(t, "timer", TRUE)
         \/ \A s \in 1..Len(socks') : socks'[s].apiKey = t => s <= Len(socks)]_vars

\* C5: from the end of a terminal close's handling or of a logout request up
\* to the tenant's next connect request, the tenant has no credential
\* directory and no registered session.
C5_CleanAfterLogout ==
  \A t \in Tenants : loggedOut[t] => sessions[t] = 0 /\ sessDir[t] = "absent"

\* C6: for every tenant at most one reconnect timer is pending, and while it
\* is pending the guard is up (so a further transient close schedules none).
C6_OneTimerPending ==
  \A t \in Tenants : timers[t] <= 1 /\ (timers[t] = 1 => reconnecting[t])

\* a second transient close was handled while the one timer was pending
C6_SecondCloseHeld ==
  \E t \in Tenants :
    /\ timers[t] = 1
    /\ Cardinality({s \in SockIds : socks[s].apiKey = t
                                    /\ socks[s].outcome = "scheduled"}) = 1
    /\ \E s \in SockIds : socks[s].apiKey = t /\ socks[s].outcome = "held"

\* C7: stored credentials leave the tenant's directory only in a step of the
\* logout request or of the logged-out branch of a close handler; no step of
\* the transient path (reconnect branch, timer, createSocketForUser, open)
\* changes them.
C7_OnlyLogoutDeletesCreds ==
  [][\A t \in Tenants :
       (sessDir[t] = "creds" /\ sessDir'[t] # "creds")
         => \/ Logout(t)
            \/ LogoutCallDone(t)
            \/ \E h \in handlers :
                 /\ socks[h.sock].apiKey = t
                 /\ h.ld = LoggedOutDisconnect
                 /\ \/ \E ok \in BOOLEAN : HLoggedOutLogDone(h, ok)
                    \/ HLogoutDone(h)]_vars

\* the credentials are still stored after a Connected session was closed
\* transiently, its timer fired and the timer's callback returned
C7_CredsKeptAcrossReconnect ==
  \E t \in Tenants :
    /\ Dropped(t)
    /\ socks[sessions[t]].outcome = "scheduled"
    /\ timers[t] = 0
    /\ ~reconnecting[t]
    /\ sessDir[t] = "creds"

\* C8: the close handler takes the cleanup branch exactly when the update's
\* reason code is loggedOut; with any other code, without a code and without
\* a lastDisconnect it takes the reconnect branch.
C8_TerminalIffLoggedOut ==
  [][\A h \in handlers :
       (\E ok \in BOOLEAN : HCloseLogDone(h, ok)) =>
         LET cleanup == [h EXCEPT !.pc = "loggedOutLog"] \in handlers'
             reconnect == /\ \A g \in handlers' : g.sock # h.sock
                          /\ socks'[h.sock].outcome # ""
                          /\ reconnecting'[socks[h.sock].apiKey]
         IN IF h.ld = LoggedOutDisconnect
            THEN cleanup /\ ~reconnect
            ELSE reconnect /\ ~cleanup]_vars

\* a close that carried no reason code took the reconnect branch
C8_NoReasonReconnects ==
  \E s \in SockIds :
    /\ socks[s].outcome = "scheduled"
    /\ socks[s].code = Undefined
    /\ \A h \in handlers : h.sock # s

\* C9: a command that arrives while the registry holds no session for the
\* tenant is answered 'Session not connected', whatever its body, and
\* invokes no socket operation.
C9_NoSessionRejected ==
  (req.pc # "idle" /\ req.found = 0)
    => /\ req.pc = "done"
       /\ req.status = 400
       /\ req.error = "SessionNotConnected"
       /\ req.invoked = 0

\* C10: a command that arrives while the tenant's session is registered but
\* not open (still linking, or closed) is answered 'Session not connected'
\* and invokes no socket operation.
C10_NotOpenRejected ==
  (req.pc # "idle" /\ req.found # 0 /\ req.ws # "open")
    => /\ req.pc = "done"
       /\ req.error = "SessionNotConnected"
       /\ req.invoked = 0

\* a required parameter of the request is missing or empty
MissingOrEmpty(r) ==
  \/ r.body \in {"invalid", "nosource"}
  \/ r.cmd = "broadcast" /\ r.n = 0

\* C11: a command that finds a session and whose body lacks a required
\* parameter, or has it empty, is answered 400 InvalidRequest, invokes no
\* socket operation and writes no audit entry.
C11_InvalidRejected ==
  (req.pc # "idle" /\ req.found # 0 /\ MissingOrEmpty(req))
    => /\ req.pc = "done"
       /\ req.status = 400
       /\ req.error = "InvalidRequest"
       /\ req.invoked = 0
       /\ req.logged = 0

\* C12: a command whose socket operation failed is answered with the
\* failure's message, never with success, and (broadcast apart, which sends
\* once per recipient) invoked the operation exactly once.
C12_FailureSurfaced ==
  (req.pc = "done" /\ req.failed)
    => /\ req.status = 500
       /\ req.error = "CapabilityError"
       /\ (req.cmd # "broadcast" => req.invoked = 1)

\* the sendSSE calls so far
PubIds == 1..Len(pubs)

\* how often the sendSSE call p was written to the sink k
Writes(k, p) ==
  Cardinality({i \in 1..Len(sinks[k].log) : sinks[k].log[i].pub = p})

\* the sink k was in the subscriber set of the call's tenant when the
\* sendSSE call p was made
SubscribedAt(k, p) ==
  /\ sinks[k].state # "new"
  /\ sinks[k].apiKey = pubs[p].apiKey
  /\ sinks[k].since < p
  /\ (sinks[k].state = "closed" => p <= sinks[k].until)

\* C13: every sendSSE call is written exactly once to every sink that was in
\* the tenant's subscriber set at the moment of the call, and never to any
\* other sink: not to another tenant's, not to one that subscribed later (no
\* replay), not to one that had closed.
C13_PublishToCurrentSubscribers ==
  \A p \in PubIds, k \in Sinks :
    Writes(k, p) = IF SubscribedAt(k, p) THEN 1 ELSE 0

\* a call reached one sink and a sink of the same tenant that subscribed
\* later has not received it, while a later call reached both
C13_LateSubscriberMissesEarlier ==
  \E p \in PubIds, q \in PubIds, k \in Sinks, j \in Sinks :
    /\ p < q
    /\ pubs[p].apiKey = sinks[j].apiKey
    /\ sinks[j].state = "live"
    /\ sinks[j].since >= p
    /\ Writes(k, p) = 1 /\ Writes(j, p) = 0
    /\ Writes(k, q) = 1 /\ Writes(j, q) = 1

\* the writes to the sink k that threw
FailedWrites(k) == {i \in 1..Len(sinks[k].log) : ~sinks[k].log[i].ok}

\* C14: a sink to which a write failed is out of its tenant's subscriber set
\* and no later call writes to it again, and every call was written to all
\* the sinks subscribed at its moment.
C14_BrokenSinkRemoved ==
  /\ \A k \in Sinks :
       FailedWrites(k) # {}
         => /\ k \notin Clients(sinks[k].apiKey)
            /\ Cardinality(FailedWrites(k)) = 1
  /\ \A p \in PubIds, k \in Sinks : SubscribedAt(k, p) => Writes(k, p) >= 1

\* the suspended handlers of the socket s, of whatever update
HandlersOf(s) ==
  Cardinality({h \in evHandlers : events[h.ev].sock = s})
    + Cardinality({h \in handlers : h.sock = s})

\* C15: the updates of one socket are handled one after another: no handler
\* starts while another handler of the same socket is suspended at an await.
C15_HandlersSequential ==
  \A s \in SockIds : HandlersOf(s) <= 1

\* a subscriber of the socket's tenant has been in the set since before the
\* update e was emitted
Watched(e) ==
  \E k \in Sinks :
    /\ sinks[k].state \in {"live", "broken"}
    /\ sinks[k].apiKey = socks[events[e].sock].apiKey
    /\ sinks[k].sinceEv < e

\* the sendSSE calls made while the update e was handled
PubsOf(e) == {p \in PubIds : pubs[p].cause = e}

\* the suspended handler of the update e, if any
Pending(e) == {h \in evHandlers : h.ev = e}

\* the first-time linking: s is the only socket made for its tenant so far
FirstLinking(s) ==
  \A r \in SockIds : socks[r].apiKey = socks[s].apiKey => r = s

\* C16: in the first-time linking of a tenant, with a subscriber present,
\* the socket made by connect is, until it closes, the registered session of
\* the tenant; every qr update is published exactly once, as `qr` with a
\* non-empty artifact, once its handler has returned (and not before); an
\* open update is published as `connected` and then, when its handler has
\* returned, as `qr_cleared`, and unless the socket has closed since, the
\* tenant is then Connected.
C16_LinkingPublishes ==
  /\ \A s \in SockIds :
       (FirstLinking(s) /\ socks[s].ws # "closed")
         => sessions[socks[s].apiKey] = s
  /\ \A e \in EventIds :
       (Watched(e) /\ FirstLinking(events[e].sock)) =>
         LET s == events[e].sock
             ps == PubsOf(e)
         IN IF events[e].kind = "qr"
            THEN IF Pending(e) # {} THEN ps = {}
                 ELSE /\ Cardinality(ps) = 1
                      /\ \A p \in ps : pubs[p].ev = "qr" /\ pubs[p].data # <<>>
            ELSE /\ (\E h \in Pending(e) : h.pc = "logUpdate") => ps = {}
                 /\ (\E h \in Pending(e) : h.pc = "logOpen")
                      => /\ Cardinality(ps) = 1
                         /\ \A p \in ps : pubs[p].ev = "connected"
                 /\ Pending(e) = {}
                      => /\ \E p \in ps, q \in ps :
                              /\ p < q
                              /\ ps = {p, q}
                              /\ pubs[p].ev = "connected"
                              /\ pubs[q].ev = "qr_cleared"
                         /\ (socks[s].ws # "closed" => Connected(socks[s].apiKey))

\* a watched linking is over: a qr update whose rendering failed was
\* published with the fallback artifact, the open update was published twice
\* and the tenant is Connected
C16_LinkedWithFallbackArtifact ==
  \E e \in EventIds, o \in EventIds :
    /\ events[e].kind = "qr" /\ events[o].kind = "open"
    /\ Watched(e) /\ Watched(o)
    /\ FirstLinking(events[e].sock) /\ FirstLinking(events[o].sock)
    /\ Pending(e) = {} /\ Pending(o) = {}
    /\ \E p \in PubsOf(e) : pubs[p].data[1] = "data:text/plain;base64,"
    /\ Cardinality(PubsOf(o)) = 2
    /\ Connected(socks[events[o].sock].apiKey)

\* C17: when connect calls createSocketForUser for a tenant whose session is
\* Connected, the call returns at the registry check: no creation is started,
\* no socket is made, and the registry, the credential directory, the
\* handlers in progress, the timers and the guard stay as they are.
C17_ConnectIdempotent ==
  [][\A t \in Tenants :
       (Connected(t) /\ (Connect(t) \/ FindUserDone(t, "connect", TRUE)))
         => /\ UNCHANGED <<sessions, socks, sessDir, handlers, timers, reconnecting>>
            /\ \A c \in CallKinds : creating'[c] <= creating[c]]_vars

\* a second connect request is being served for a tenant whose session is
\* Connected and is about to call createSocketForUser
C17_SecondConnectWhileConnected ==
  \E t \in Tenants :
    /\ Connected(t)
    /\ creating[Call(t, "connect", "findUser")] > 0

\* C18: broadcast sends to its recipients in list order, one send in flight
\* at a time; when the send to recipient k fails, recipients 1..k-1 were
\* sent, none after k is, and the response is an error without results;
\* when all succeed the response carries one result per recipient in order.
C18_BroadcastInOrder ==
  (req.cmd = "broadcast" /\ req.body = "valid" /\ req.found # 0)
    => /\ \A i \in 1..Len(req.results) : req.results[i] = i
       /\ req.invoked <= req.n
       /\ req.pc = "op" => req.invoked = Len(req.results) + 1
       /\ req.pc = "log" => req.invoked = Len(req.results)
       /\ (req.pc = "done" /\ req.failed)
            => /\ req.status = 500
               /\ req.error = "CapabilityError"
               /\ req.out = <<>>
               /\ Len(req.results) = req.invoked - 1
       /\ (req.pc = "done" /\ ~req.failed)
            => /\ req.status = 200
               /\ req.invoked = req.n
               /\ req.out = req.results
               /\ Len(req.out) = req.n

\* a broadcast to two recipients failed at the second
C18_FailedAtSecondRecipient ==
  /\ req.cmd = "broadcast" /\ req.pc = "done" /\ req.n = 2
  /\ req.failed /\ req.invoked = 2 /\ req.results = <<1>>

\* the kind the table gives for a lower-cased extension word
TableKind(w) ==
  IF w \in {"jpg", "jpeg", "png", "webp"} THEN "image"
  ELSE IF w \in {"mp4", "mkv", "mov"} THEN "video"
  ELSE IF w \in {"mp3", "wav", "ogg"} THEN "audio"
  ELSE "document"

\* the words, lower-cased by hand
LowerWord(w) == IF w = "JPG" THEN "jpg" ELSE IF w = "Mp4" THEN "mp4" ELSE w

\* C19: the message built for a file name has exactly one of the four kinds;
\* a name that ends in a letter run, a dot and a letter run gets the kind of
\* the table for the lower-cased last run; a name without a dot, and the
\* default name "file", get document.
C19_KindByExtension ==
  media.pc = "built" =>
    LET name == media.filename
        n == Len(name)
    IN /\ media.kind \in {"image", "video", "audio", "document"}
       /\ (n >= 3 /\ name[n - 2] \in Words /\ name[n - 1] = "." /\ name[n] \in Words)
            => media.kind = TableKind(LowerWord(name[n]))
       /\ (\A i \in 1..n : name[i] # ".") => media.kind = "document"
       /\ name = <<"file">> => media.kind = "document"

\* a file name with an upper-case extension was classified as image
C19_UpperCaseImage ==
  /\ media.pc = "built"
  /\ media.filename = <<"a", ".", "JPG">>
  /\ media.kind = "image"

\* the step publishes the event ev for the tenant t, if t has subscribers
PublishedNow(t, ev) ==
  Clients(t) # {} =>
    /\ Len(pubs') = Len(pubs) + 1
    /\ pubs'[Len(pubs')].ev = ev

\* C20: a step in which an audit write fails goes on as the step with the
\* write done does: the command whose operation succeeded answers success;
\* the close handler goes on to classify the close, schedules the
\* reconnection or goes on to the cleanup, and the cleanup removes the
\* directory and publishes `logged_out`; the open handler publishes
\* `connected` and `qr_cleared`.
C20_AuditFailureHarmless ==
  [][/\ (LogDone(FALSE) /\ ~req.failed /\ req.invoked = req.n)
          => req'.pc = "done" /\ req'.status = 200
     /\ \A h \in handlers :
          LET s == h.sock
              t == socks[h.sock].apiKey
          IN /\ HLogUpdateDone(h, FALSE)
                  => [h EXCEPT !.pc = "closeLog"] \in handlers'
             /\ HCloseLogDone(h, FALSE)
                  => IF h.ld = LoggedOutDisconnect
                     THEN [h EXCEPT !.pc = "loggedOutLog"] \in handlers'
                     ELSE /\ socks'[s].outcome \in {"scheduled", "held"}
                          /\ reconnecting'[t]
                          /\ ~reconnecting[t] => timers'[t] = timers[t] + 1
             /\ HLoggedOutLogDone(h, FALSE)
                  => IF sessions[t] # 0
                     THEN \E g \in handlers' : g.sock = s /\ g.pc = "logoutAwait"
                     ELSE /\ sessDir'[t] = "absent"
                          /\ socks'[s].outcome = "cleaned"
                          /\ PublishedNow(t, "logged_out")
     /\ \A h \in evHandlers :
          LET t == socks[events[h.ev].sock].apiKey
          IN /\ HOpenLogUpdateDone(h, FALSE)
                  => /\ [h EXCEPT !.pc = "logOpen"] \in evHandlers'
                     /\ PublishedNow(t, "connected")
             /\ HOpenLogDone(h, FALSE) => PublishedNow(t, "qr_cleared")]_vars

\* a command answered success although its audit write failed, beside a
\* socket whose logged-out close was cleaned up and published
C20_SuccessWithoutAuditEntry ==
  /\ req.pc = "done" /\ req.status = 200 /\ req.invoked = 1 /\ req.logged = 0
  /\ \E s \in SockIds : socks[s].outcome = "cleaned"
  /\ \E p \in PubIds : pubs[p].ev = "logged_out"

\* C21: a command's audit write, with the log store reachable, leaves an
\* entry in the store (the record saveLog passes is accepted by the Log
\* model), and a command that invoked the socket answers success only from
\* the step that follows its audit write.
C21_SuccessLeavesAuditEntry ==
  [][/\ LogDone(TRUE) => req'.logged = req.logged + 1
     /\ (req.pc # "done" /\ req'.pc = "done" /\ req'.status = 200
           /\ req'.invoked > 0) => req.pc = "log"]_vars

\* C22: while an audit write of a qr or open update is still to be made or
\* awaited, nothing has been published for that update; the cleanup of a
\* logged-out close is published only by a handler that has made all its
\* audit writes; and a message batch is published only after its audit
\* write has settled.
C22_AuditBeforePublish ==
  /\ \A h \in evHandlers :
       h.pc \in {"logUpdate", "render", "logQr", "logOpen"} => PubsOf(h.ev) = {}
  /\ \A s \in SockIds :
       socks[s].outcome = "cleaned" => \A h \in handlers : h.sock # s
  /\ \A i \in 1..Len(inbox.order) :
       inbox.order[i] = "publish" => \E j \in 1..(i - 1) : inbox.order[j] = "log"

\* the messages of the batch in hand for which a receipt is due
ReceiptsDue ==
  IF inbox.type = "notify"
  THEN {j \in 1..Len(inbox.msgs) : inbox.msgs[j] = "chat"}
  ELSE {}

\* the messages for which a receipt was attempted
ReceiptsAttempted == {inbox.attempted[i] : i \in 1..Len(inbox.attempted)}

\* C23: for a batch of type notify one receipt is attempted, in list order,
\* for every message with a key whose remote id is not status@broadcast and
\* for no other message, whether earlier receipts failed or not; for a batch
\* of another type none is attempted; and the batch is published once as a
\* `message` event.
C23_ReceiptPerMessage ==
  inbox.pc # "idle" =>
    /\ ReceiptsAttempted \subseteq ReceiptsDue
    /\ \A i \in 1..Len(inbox.attempted), j \in 1..Len(inbox.attempted) :
         i < j => inbox.attempted[i] < inbox.attempted[j]
    /\ inbox.failed \subseteq ReceiptsAttempted
    /\ inbox.pc = "receipt"
         => ReceiptsAttempted = {j \in ReceiptsDue : j <= inbox.i}
    /\ inbox.pc = "done"
         => /\ ReceiptsAttempted = ReceiptsDue
            /\ Cardinality({i \in 1..Len(inbox.order) :
                              inbox.order[i] = "publish"}) = 1

\* the first receipt of a batch failed, the status message was skipped, the
\* third message got its receipt and the batch was published
C23_ReceiptAfterFailedOne ==
  /\ inbox.pc = "done" /\ inbox.copy = 1 /\ inbox.type = "notify"
  /\ inbox.msgs = <<"chat", "status", "chat">>
  /\ inbox.failed = {1}
  /\ inbox.attempted = <<1, 3>>
  /\ inbox.order = <<"log", "receipt", "receipt", "publish">>
  /\ \E p \in PubIds : pubs[p].ev = "message"

\* C24: a sink that has signalled closure is in no subscriber set, its
\* heartbeat interval is cleared and nothing more is written to it, by a
\* publish or by a heartbeat; and its closure leaves the other sinks, their
\* membership and their intervals as they were.
C24_ClosedSinkLeft ==
  [][\A k \in Sinks :
       /\ sinks'[k].state = "closed"
            => /\ \A t \in Tenants : k \notin ClientsIn(sseClients', t)
               /\ ~sinks'[k].ping
               /\ sinks[k].state = "closed" => sinks'[k].log = sinks[k].log
       /\ SinkClose(k)
            => \A j \in Sinks \ {k} :
                 /\ sinks'[j] = sinks[j]
                 /\ \A t \in Tenants :
                      j \in ClientsIn(sseClients', t) <=> j \in Clients(t)]_vars

\* a sink that got a heartbeat has closed, and a later publish was written
\* to another sink of the same tenant and not to it
C24_OtherSinkStillServed ==
  \E k \in Sinks, j \in Sinks :
    /\ sinks[k].state = "closed" /\ sinks[j].state = "live"
    /\ sinks[k].apiKey = sinks[j].apiKey
    /\ Beats(k) > 0
    /\ \E p \in PubIds :
         /\ p > sinks[k].until
         /\ Writes(j, p) = 1
         /\ Writes(k, p) = 0

\* C25: a GET request to /qr-stream that carries a tenant's key only in the
\* query parameter apiKey, and no x-api-key header, is answered by the
\* stream handler through the first mount, without verifyApiKey, and its
\* response is subscribed under that key.
C25_QueryKeyAdmitted ==
  (/\ http.pc = "done"
   /\ http.method = "GET" /\ http.path = <<"qr-stream">>
   /\ http.header = "none" /\ http.query \in Tenants)
    => /\ http.handler = "qr-stream"
       /\ http.layer = "open"
       /\ http.status = 200
       /\ http.key = http.query
       /\ http.sink \in Sinks
       /\ sinks[http.sink].apiKey = http.query

\* C27: a request without a valid x-api-key header reaches no command
\* handler (no route but the stream), whatever its path, and the handlers
\* that go on past their first statement are those of requests for which
\* verifyApiKey has set req.user.
C27_CommandsBehindVerification ==
  /\ http.header \notin Tenants => http.handler \in {"none", "qr-stream"}
  /\ http.pc = "handler" => http.user # "none" /\ http.user = http.header

\* C26: whenever a tenant's session is Connected, the tenant's reconnect
\* guard is false (the open update has reset it).
C26_ConnectedMeansGuardDown ==
  \A t \in Tenants : Connected(t) => ~reconnecting[t]

\* C28: the status query answers connected = true exactly when the tenant
\* has a registered session whose transport is open (false without session,
\* and false for a session that is linking or closed), and it changes
\* nothing but its own answer.
C28_StatusReportsConnected ==
  [][\A t \in Tenants :
       Status(t) => /\ probe'.apiKey = t
                    /\ probe'.connected <=> Connected(t)
                    /\ probe'.connected
                         => sessions[t] # 0 /\ socks[sessions[t]].ws = "open"
                    /\ UNCHANGED <<lifecycle, req, sseClients, sinks, events,
                                   evHandlers, pubs, media, notProbe>>]_vars

\* the query answered false for a tenant whose registered session had closed
\* after having been open
C28_DroppedReportedFalse ==
  /\ probe.pc = "done" /\ ~probe.connected
  /\ sessions[probe.apiKey] # 0
  /\ socks[sessions[probe.apiKey]].opened
  /\ socks[sessions[probe.apiKey]].ws = "closed"

\* the gross amount the notification states is the amount a
GrossEquals(g, a) ==
  /\ g # <<>>
  /\ g[1] \in Wholes
  /\ Number(g[1]) = a
  /\ Len(g) = 2 => g[2] = ".00"

\* the notification of the call in progress passes every test of the
\* webhook: signature, record, amount and status
Payable(n) ==
  /\ verifyMidtransSignature(n)
  /\ pay.payments[n.order_id].exists
  /\ GrossEquals(n.gross_amount, pay.payments[n.order_id].amount)
  /\ StatusLower(n.transaction_status) \in {"settlement", "capture", "success"}

\* C29: a user's premium flag or expiry changes only in a webhook call
\* whose notification has a valid signature, the order id of a payment
\* record, a gross amount equal to the recorded amount and the status
\* settlement, capture or success in any letter case; the change turns
\* premium on and moves the expiry later.
C29_PremiumOnlyWhenPaid ==
  [][pay'.users # pay.users
       => /\ pay.hook.pc # "idle"
          /\ Payable(pay.hook.n)
          /\ \A u \in Users :
               pay'.users[u] # pay.users[u]
                 => /\ u = pay.payments[pay.hook.n.order_id].userId
                    /\ pay'.users[u].premium
                    /\ pay'.users[u].premiumUntil > pay.users[u].premiumUntil]_vars

\* C30: a call whose notification has an invalid signature or an unknown
\* order id changes no payment record and no user; a call with a valid
\* signature and a gross amount that differs from the recorded one changes
\* no user and changes the payment only by the save that stores the
\* notification with the status amount_mismatch, which is the save it makes.
C30_RejectedNotificationFrame ==
  [][pay.hook.pc # "idle" =>
       LET n == pay.hook.n
           o == n.order_id
       IN /\ (~verifyMidtransSignature(n) \/ ~pay.payments[o].exists)
               => pay'.users = pay.users /\ pay'.payments = pay.payments
          /\ (/\ verifyMidtransSignature(n)
              /\ pay.payments[o].exists
              /\ ~GrossEquals(n.gross_amount, pay.payments[o].amount))
               => /\ pay'.users = pay.users
                  /\ pay'.payments # pay.payments
                       => pay'.payments =
                            [pay.payments EXCEPT
                               ![o] = Saved(@, n, "amount_mismatch")]
                  /\ pay.hook.pc \notin {"save", "findUser", "saveUser"}]_vars

\* C31: a password-reset token is single-use and time-limited.  A
\* resetPassword request gets past the token check only with a token some
\* user has stored and before that token's expiry; it succeeds only while
\* the token is still the one stored for the user, and then the stored token
\* and expiry are cleared, so no token lets two requests succeed; a request
\* that is rejected leaves every password as it was.
C31_ResetTokenSingleUse ==
  [][\A r \in 1..MaxResets :
       LET q == auth.resets[r]
           after == auth'.resets[r]
       IN /\ (q.pc = "findOne" /\ after.pc = "hash") =>
               \E e \in Emails :
                  /\ auth.users[e].resetToken = q.token
                  /\ auth.users[e].resetTokenExp >= auth.now
          /\ (q.pc # "done" /\ after.pc = "done" /\ after.status = 200) =>
               /\ auth.users[q.user].resetToken = q.token
               /\ auth'.users[q.user].resetToken = 0
               /\ auth'.users[q.user].resetTokenExp = 0 - 1
               /\ auth'.uses[q.token] = 1
          /\ (q.pc # "done" /\ after.pc = "done" /\ after.status # 200) =>
               auth'.users = auth.users]_vars

\* C32: a close event from a channel that is no longer the tenant's
\* registered session never affects a newer session.  Whenever the handler
\* of a close update resumes and the registry holds another session than the
\* handler's own channel, that session stays registered, its connection is
\* not ended and the credentials in the tenant's directory are not deleted.
C32_StaleCloseSparesNewSession ==
  [][\A h \in handlers :
       LET t == socks[h.sock].apiKey
       IN (h \notin handlers' /\ sessions[t] # 0 /\ sessions[t] # h.sock) =>
            /\ sessions'[t] = sessions[t]
            /\ socks'[sessions[t]].ws = socks[sessions[t]].ws
            /\ sessDir'[t] = sessDir[t]]_vars

\* C33: no stale linking code is shown after connection.  Once `connected`
\* and `qr_cleared` have been published for the open update of a tenant's
\* session, a `qr` event is published for that tenant only after that
\* session has closed.
C33_NoQrAfterCleared ==
  [][(Len(pubs') > Len(pubs) /\ pubs'[Len(pubs')].ev = "qr") =>
       \A i \in 1..Len(pubs), j \in 1..Len(pubs) :
          (/\ pubs[i].ev = "connected"
           /\ pubs[j].ev = "qr_cleared"
           /\ pubs[i].cause = pubs[j].cause
           /\ pubs[j].apiKey = pubs'[Len(pubs')].apiKey) =>
             socks[events[pubs[j].cause].sock].ws = "closed"]_vars

\* C34: every `connected` event written to a subscriber's sink corresponds
\* to an open event of the tenant's channel; in particular a sink never
\* receives `connected` for a tenant that has no session or whose session is
\* not open.  Stated for the write: when `connected` is written to a sink,
\* it was caused by an open update and the sink's tenant has a registered
\* session whose connection is open.
C34_ConnectedOnlyWhileOpen ==
  [][\A k \in Sinks :
       LET log == sinks'[k].log
           p == log[Len(log)].pub
           t == sinks[k].apiKey
       IN (/\ Len(log) > Len(sinks[k].log)
           /\ p > 0
           /\ pubs'[p].ev = "connected") =>
            /\ events[pubs'[p].cause].kind = "open"
            /\ sessions[t] # 0
            /\ socks[sessions[t]].ws = "open"]_vars

\* C35: tenant isolation of the event fan-out.  A step writes to a sink at
\* most once, and what it writes is the sink's own ack or an event published
\* for the tenant the sink is registered under; and a step that belongs to a
\* tenant A (a handler of an update of A's session runs, or the step changes
\* A's session, logout request, credentials or subscriber set) leaves every
\* sink registered under another tenant exactly as it was.  So two runs that differ only in A's events make the same
\* writes, in the same order, to the sinks of another tenant B.
C35_TenantIsolation ==
  [][/\ \A k \in Sinks :
          sinks'[k].log # sinks[k].log =>
            LET log == sinks'[k].log
                w == log[Len(log)]
            IN /\ Len(log) = Len(sinks[k].log) + 1
               /\ w.pub > 0 => pubs'[w.pub].apiKey = sinks'[k].apiKey
     /\ \A a \in Tenants, k \in Sinks :
          (/\ sinks[k].state # "new"
           /\ sinks[k].apiKey # a
           /\ \/ \E h \in evHandlers \ evHandlers' :
                    socks[events[h.ev].sock].apiKey = a
              \/ \E h \in handlers \ handlers' : socks[h.sock].apiKey = a
              \/ sessions'[a] # sessions[a]
              \/ logoutReq'[a] # logoutReq[a]
              \/ sessDir'[a] # sessDir[a]
              \/ ClientsIn(sseClients', a) # Clients(a)) =>
            sinks'[k] = sinks[k]]_vars

\* an event was published for one tenant while a sink of the other tenant
\* was subscribed, and that sink has received nothing but its ack
C35_OtherTenantSinkUntouched ==
  \E k \in Sinks, p \in 1..Len(pubs) :
    /\ sinks[k].state = "live"
    /\ sinks[k].apiKey # pubs[p].apiKey
    /\ sinks[k].since < p
    /\ pubs[p].ev = "connected"
    /\ sinks[k].log = <<[pub |-> 0, ok |-> TRUE]>>

\* C36: whenever the reconnect guard of a tenant is up, it eventually
\* returns to false: the timer fires and its callback lowers the guard when
\* it ends, whether the user lookup or the connect attempt resolved, threw
\* or found no user.  (That a later transient close can schedule a new
\* attempt is the state C36_ScheduledAgain.)
C36_GuardComesDown ==
  \A t \in OneTenant : reconnecting[t] ~> ~reconnecting[t]

\* two channels of the tenant had a transient close that scheduled an
\* attempt: the guard was down again when the second one was handled
C36_ScheduledAgain ==
  \E s1 \in SockIds, s2 \in SockIds :
    /\ s1 < s2
    /\ socks[s1].apiKey = socks[s2].apiKey
    /\ socks[s1].outcome = "scheduled"
    /\ socks[s2].outcome = "scheduled"

\* C37: processing the same valid settlement notification twice for one
\* order has the same effect on the user's premium expiry as processing it
\* once: each paid order extends premium by at most one month.
C37_OneMonthPerOrder ==
  \A o \in Orders : pay.payments[o].credits <= 1

\* C38: after any sequence of subscribe and sink-close operations the
\* subscriber map has an entry for a tenant exactly when at least one of
\* that tenant's sinks is still open (subscribed, its close not yet
\* handled): no key maps to an empty set, and a set holds exactly the open
\* sinks subscribed under its key, so no closed sink remains in any set.
C38_MapHoldsOpenSinks ==
  /\ \A t \in Tenants :
       t \in DOMAIN sseClients <=>
         \E k \in Sinks : sinks[k].apiKey = t /\ sinks[k].state \in {"live", "broken"}
  /\ \A t \in DOMAIN sseClients :
       /\ sseClients[t] # {}
       /\ sseClients[t] =
            {k \in Sinks : sinks[k].apiKey = t /\ sinks[k].state \in {"live", "broken"}}

\* the last sink of one tenant has closed and its key is gone, while the
\* other tenant still has an entry
C38_KeyDeletedWithLastSink ==
  \E k \in Sinks :
    /\ sinks[k].state = "closed"
    /\ sinks[k].apiKey \notin DOMAIN sseClients
    /\ DOMAIN sseClients # {}

=============================================================================
